---- MODULE Spec2Model ----
(***************************************************************************)
(* Attendance bot: the TOTP credential check, the daily check-in/check-out *)
(* sequencing of Service.MarkAttendance over the SQLite attendance table,  *)
(* and the report and alias operations of the service.                     *)
(***************************************************************************)
EXTENDS Integers, Sequences, FiniteSets, TLC

\* ------------------------------------------------------------------ bounds
NumUsers == 2
NumProcs == 2
MaxDay == 2
MaxCalls == 4
TotpWindow == 4

Users == 1..NumUsers
Procs == 1..NumProcs
Days == 1..MaxDay

\* ------------------------------------------------------- program constants
TimeStep == 30
CodeModulus == 1000000
OTPLength == 6
JakartaOffset == 25200
SecondsPerDay == 86400
HashLen == 20

\* ------------------------------------------------------------ text helpers
DigitChars == <<"0", "1", "2", "3", "4", "5", "6", "7", "8", "9">>
UpperChars == <<"A", "B", "C", "D", "E", "F", "G", "H", "I", "J", "K", "L", "M",
                "N", "O", "P", "Q", "R", "S", "T", "U", "V", "W", "X", "Y", "Z">>
LowerChars == <<"a", "b", "c", "d", "e", "f", "g", "h", "i", "j", "k", "l", "m",
                "n", "o", "p", "q", "r", "s", "t", "u", "v", "w", "x", "y", "z">>
Base32Chars == UpperChars \o <<"2", "3", "4", "5", "6", "7">>
SpaceChars == {" ", "\t", "\n", "\r"}

Range(s) == {s[i] : i \in 1..Len(s)}
IndexOf(s, c) == CHOOSE i \in 1..Len(s) : s[i] = c
Digits == Range(DigitChars)
IsDigit(c) == c \in Digits

\* strings.TrimSpace: leading and trailing white space removed
RECURSIVE TrimLeft(_)
TrimLeft(s) == IF s # <<>> /\ Head(s) \in SpaceChars THEN TrimLeft(Tail(s)) ELSE s
RECURSIVE TrimRight(_)
TrimRight(s) ==
    IF s # <<>> /\ s[Len(s)] \in SpaceChars THEN TrimRight(SubSeq(s, 1, Len(s) - 1)) ELSE s
TrimSpace(s) == TrimRight(TrimLeft(s))

\* strings.ReplaceAll(token, " ", "")
RemoveBlanks(s) == SelectSeq(s, LAMBDA c : c # " ")

\* strings.ToUpper on the ASCII letters
ToUpper(s) ==
    [i \in 1..Len(s) |->
        IF s[i] \in Range(LowerChars) THEN UpperChars[IndexOf(LowerChars, s[i])] ELSE s[i]]

\* fmt.Sprintf("%06d", n): at least six digits, zero padded on the left
RECURSIVE DecimalDigits(_)
DecimalDigits(n) ==
    IF n < 10 THEN <<DigitChars[n + 1]>>
    ELSE DecimalDigits(n \div 10) \o <<DigitChars[(n % 10) + 1]>>
\* fmt.Sprintf("%d", n)
SprintfD(n) == DecimalDigits(n)

Sprintf06d(n) ==
    LET d == DecimalDigits(n)
    IN  IF Len(d) >= OTPLength THEN d
        ELSE [i \in 1..(OTPLength - Len(d)) |-> "0"] \o d

\* -------------------------------------------------------------- validation
\* utils.ValidateOTP without the loop over the characters
ValidateOTPLengthOnly(otp) == Len(TrimSpace(otp)) = OTPLength

\* utils.ValidateOTP
ValidateOTP(otp) ==
    LET t == TrimSpace(otp)
    IN  /\ Len(t) = OTPLength
        /\ \A i \in 1..Len(t) : IsDigit(t[i])

\* ------------------------------------------------------------------- TOTP
\* base32.StdEncoding.DecodeString: quanta of eight characters, "=" padding
\* only at the end of the last quantum; err is set for a decoding error.
RECURSIVE StripPad(_)
StripPad(s) == IF s # <<>> /\ s[Len(s)] = "=" THEN StripPad(SubSeq(s, 1, Len(s) - 1)) ELSE s

Base32Bits(data) ==
    [k \in 1..(5 * Len(data)) |->
        LET v == IndexOf(Base32Chars, data[((k - 1) \div 5) + 1]) - 1
            j == (k - 1) % 5
        IN  (v \div (2 ^ (4 - j))) % 2]

Base32Decode(s) ==
    LET data == StripPad(s)
        pad == Len(s) - Len(data)
    IN  IF \/ Len(s) % 8 # 0
           \/ pad \notin {0, 1, 3, 4, 6}
           \/ \E i \in 1..Len(data) : data[i] \notin Range(Base32Chars)
        THEN [err |-> TRUE, bytes |-> <<>>]
        ELSE LET bits == Base32Bits(data)
             IN  [err |-> FALSE,
                  bytes |-> [b \in 1..((5 * Len(data)) \div 8) |->
                    bits[8 * b - 7] * 128 + bits[8 * b - 6] * 64 + bits[8 * b - 5] * 32
                    + bits[8 * b - 4] * 16 + bits[8 * b - 3] * 8 + bits[8 * b - 2] * 4
                    + bits[8 * b - 1] * 2 + bits[8 * b]]]

\* binary.BigEndian.PutUint64 of a counter below 2^32
CounterBytes(counter) ==
    [i \in 1..8 |-> IF i <= 4 THEN 0 ELSE (counter \div (256 ^ (8 - i))) % 256]

\* crypto/hmac with crypto/sha1: a deterministic keyed digest of HashLen bytes.
\* The library digest is abstracted by a keyed mixing function of the same
\* shape (key bytes and message bytes in, HashLen bytes out).
RECURSIVE Mix(_, _)
Mix(h, bytes) ==
    IF bytes = <<>> THEN h ELSE Mix((h * 33 + Head(bytes) + 1) % 65521, Tail(bytes))
HmacSha1(key, msg) ==
    LET h == Mix(Mix(5381, key), msg)
    IN  [i \in 1..HashLen |-> ((h + i * ((h % 251) + 1)) * 167 + i * i) % 256]

\* TOTPService.generateTOTPForTime
generateTOTPForTime(sec, unixTime) ==
    LET counter == unixTime \div TimeStep
        key == Base32Decode(ToUpper(sec))
    IN  IF key.err THEN <<>>
        ELSE LET hash == HmacSha1(key.bytes, CounterBytes(counter))
                 offset == hash[Len(hash)] % 16
                 truncatedHash == (hash[offset + 1] % 128) * 16777216
                                  + hash[offset + 2] * 65536
                                  + hash[offset + 3] * 256
                                  + hash[offset + 4]
                 code == truncatedHash % CodeModulus
             IN  Sprintf06d(code)

\* wall-clock seconds after local midnight at which the clock is observed:
\* 00:00:10 and 23:59:50, ten seconds either side of local midnight
LocalTimes == {10, 86390}
Instants == {d * SecondsPerDay + o - JakartaOffset : d \in Days, o \in LocalTimes}
FirstInstant == CHOOSE t \in Instants : \A x \in Instants : t <= x

\* a TOTP_SECRET that decodes and one config.validate accepts that does not
GoodSecret == <<"J", "B", "S", "W", "Y", "3", "D", "P", "E", "H", "P", "K", "3", "P", "X", "P">>
BadSecret == <<"J", "B", "S", "W", "Y", "3", "D", "P", "E", "H", "P", "K", "3", "P", "X", "1">>
Secrets == {GoodSecret, BadSecret}

\* the same secret in lower case, and a secret of 16 characters with padding
LowerSecret == <<"j", "b", "s", "w", "y", "3", "d", "p", "e", "h", "p", "k", "3", "p", "x", "p">>
PaddedSecret == <<"J", "B", "S", "W", "Y", "3", "D", "P", "E", "H", "P", "K", "3", "P", "X", "=">>
TotpSecrets == Secrets \cup {LowerSecret, PaddedSecret}

\* the values TOTP_SECRET may have in the environment at startup: unset, a
\* secret of 8 characters, the secrets above of 16 characters (10 bytes when
\* they decode) and one of 32 characters (20 bytes, as GenerateSecret makes)
ShortSecret == SubSeq(GoodSecret, 1, 8)
LongSecret == GoodSecret \o GoodSecret
EnvSecrets == {<<>>, ShortSecret, GoodSecret, BadSecret, LongSecret}

\* the instants at which the TOTP service is exercised: the first, the second
\* and the last second of TotpWindow consecutive time steps, from the step
\* before that of the first observed instant
StepOffsets == {0, 1, TimeStep - 1}
TotpBase == ((FirstInstant \div TimeStep) - 1) * TimeStep
TotpInstants == {TotpBase + k * TimeStep + o : k \in 0..(TotpWindow - 1), o \in StepOffsets}

\* wall-clock seconds after local midnight of a working day: 08:55:00,
\* 08:59:59, 09:00:00 and 17:30:00, on the first day
WorkTimes == {8 * 3600 + 55 * 60, 8 * 3600 + 59 * 60 + 59, 9 * 3600,
              17 * 3600 + 30 * 60}
WorkInstants ==
    {(CHOOSE d \in Days : \A e \in Days : d <= e) * SecondsPerDay + o - JakartaOffset :
        o \in WorkTimes}

\* the instants at which one code is sent again: the first instant, and the
\* first and the last second of the two time steps after its step
ReplayInstants ==
    {FirstInstant} \cup
    {((FirstInstant \div TimeStep) + k) * TimeStep + o : k \in 1..2, o \in {0, TimeStep - 1}}

\* a tolerance of two steps either side
WiderVerifySteps == {-2, -1, 0, 1, 2}

\* a loop that stops before the current step
LaggingVerifySteps == {-1}

\* no tolerance for clock skew
NarrowVerifySteps == {0}

\* the time steps TOTPService.Verify tries
VerifySteps == {-1, 0, 1}

\* generateTOTPForTime tabulated once over the secrets and the time steps the
\* observed instants reach, and computed directly elsewhere
TabulatedSteps ==
    {(t \div TimeStep) + i : t \in Instants \cup TotpInstants \cup WorkInstants \cup ReplayInstants,
                              i \in -2..2}
TOTPTable ==
    [sec \in TotpSecrets \cup {LongSecret} |->
        [k \in TabulatedSteps |-> generateTOTPForTime(sec, k * TimeStep)]]
TOTPForTime(sec, unixTime) ==
    IF sec \in TotpSecrets \cup {LongSecret} /\ (unixTime \div TimeStep) \in TabulatedSteps
    THEN TOTPTable[sec][unixTime \div TimeStep]
    ELSE generateTOTPForTime(sec, unixTime)

\* TOTPService.Verify without the length check
VerifyAnyLength(sec, token, now) ==
    \E i \in {-1, 0, 1} :
        RemoveBlanks(token) = TOTPForTime(sec, ((now \div TimeStep) + i) * TimeStep)

\* TOTPService.Verify, with time.Now().Unix() = now
Verify(sec, token, now) ==
    LET t == RemoveBlanks(token)
    IN  /\ Len(t) = OTPLength
        /\ \E i \in VerifySteps :
              t = TOTPForTime(sec, ((now \div TimeStep) + i) * TimeStep)

\* TOTPService.Generate, with time.Now().Unix() = now
Generate(sec, now) == TOTPForTime(sec, now)

\* ValidateSecret of the TOTP service
ValidateSecret(sec) == Len(sec) >= 16 /\ ~Base32Decode(ToUpper(sec)).err

\* the seconds elapsed in the current step
GetTimeElapsed(now) == now % TimeStep

\* TOTPService.GetTimeRemaining, with time.Now().Unix() = now
GetTimeRemaining(now) == TimeStep - (now % TimeStep)

\* a code, the candidate typed from it, and the answers of the TOTP service:
\* bare is the code Generate returned at derivedAt, token the text handed to
\* Verify, accepted what Verify said at checkedAt, wellFormed what
\* ValidateOTP said of the token, remaining what GetTimeRemaining said at
\* remainingAt (-1 for "not yet")
NoTotp == [bare |-> <<>>, token |-> <<>>, derivedAt |-> -1, checkedAt |-> -1,
           accepted |-> FALSE, wellFormed |-> FALSE, remainingAt |-> -1,
           remaining |-> 0]


\* ------------------------------------------------------------------- time
\* the calendar date without t.In(JakartaLocation)
DateKeyUTC(t) == t \div SecondsPerDay

\* utils.FormatDate(t, "yyyy-MM-dd") in Asia/Jakarta (UTC+7, no daylight
\* saving): the calendar date as a day number, which orders as the text does.
DateKey(t) == (t + JakartaOffset) \div SecondsPerDay

\* Time.Hour() of a Jakarta wall-clock time
HourOf(t) == ((t + JakartaOffset) % SecondsPerDay) \div 3600

\* ------------------------------------------------------------------ store
Nil == "nil"
NoAlias == [UserID |-> 0, FirstName |-> Nil, LastName |-> Nil]
CheckIn == "check_in"
CheckOut == "check_out"

\* the name fields Telegram supplies for a user (handleOTP passes a nil last
\* name when the account has none)
FirstNameOf(u) == IF u % 2 = 1 THEN "Budi" ELSE "Siti"
LastNameOf(u) == IF u % 2 = 1 THEN "Santoso" ELSE Nil

VARIABLES
    clock,        \* time.Now().Unix()
    secret,       \* TOTPService.secret
    attendance,   \* the attendance table, in insertion (rowid) order
    aliases,      \* the alias table, in insertion order
    pc,           \* where each caller stands in its call
    call,         \* the locals of each caller's call
    result,       \* what each caller's last call returned
    calls,        \* the number of calls made so far
    totp,         \* a code, the candidate typed from it and what the TOTP service said
    sessions,     \* Bot.sessions: the users whose entry has AwaitingDateRange set
    lastUpdateID, \* Bot.lastUpdateID
    sent,         \* the updates Telegram holds for the bot, by update_id
    updates,      \* the rest of the slice the polling loop ranges over
    handled,      \* what handleUpdate did with each update, in the order of the calls
    loop          \* where Bot.Start stands, and the update its handler works on

botVars == <<sessions, lastUpdateID, sent, updates, handled, loop>>
vars == <<clock, secret, attendance, aliases, pc, call, result, calls, totp,
          sessions, lastUpdateID, sent, updates, handled, loop>>

\* an update of Telegram: Message is FALSE for an update without a message
NoUpdate == [UpdateID |-> 0, Message |-> FALSE, From |-> 0, Text |-> <<>>]
\* Bot.Start before the first GetUpdates (calls is the number of service
\* calls made when the handler was entered, start and end its date range)
AtGetUpdates == [at |-> "getUpdates", update |-> NoUpdate, calls |-> 0,
                 start |-> 0, end |-> 0]

\* NewBot: no session, lastUpdateID zero; nothing sent or delivered yet
NewBot ==
    /\ sessions = {}
    /\ lastUpdateID = 0
    /\ sent = <<>>
    /\ updates = <<>>
    /\ handled = <<>>
    /\ loop = AtGetUpdates

\* a schema without the uniqueness constraint
NoConstraint(table, rec) == FALSE

\* a uniqueness constraint that also spans the timestamp column
ViolatesUniqueWithTimestamp(table, rec) ==
    \E i \in 1..Len(table) :
        /\ table[i].UserID = rec.UserID
        /\ table[i].Date = rec.Date
        /\ table[i].Type = rec.Type
        /\ table[i].Timestamp = rec.Timestamp

\* UNIQUE(user_id, date, type) of the schema
ViolatesUnique(table, rec) ==
    \E i \in 1..Len(table) :
        /\ table[i].UserID = rec.UserID
        /\ table[i].Date = rec.Date
        /\ table[i].Type = rec.Type

\* a nil *models.AttendanceRecord
NoRecord ==
    [ID |-> 0, UserID |-> 0, FirstName |-> Nil, LastName |-> Nil, Timestamp |-> 0,
     Type |-> Nil, Date |-> 0]

\* Repository.InsertAttendance without record.ID = id
InsertAttendanceForgetsID(table, rec) ==
    IF \E i \in 1..Len(table) :
          /\ table[i].UserID = rec.UserID
          /\ table[i].Date = rec.Date
          /\ table[i].Type = rec.Type
    THEN [err |-> TRUE, row |-> NoRecord, record |-> NoRecord]
    ELSE [err |-> FALSE, row |-> [rec EXCEPT !.ID = Len(table) + 1], record |-> rec]

\* Repository.InsertAttendance: err when the INSERT is refused; otherwise
\* row is the row the table gains, with its AUTOINCREMENT id, and record is
\* the caller's record with record.ID = id
InsertAttendance(table, rec) ==
    IF ViolatesUnique(table, rec)
    THEN [err |-> TRUE, row |-> NoRecord, record |-> NoRecord]
    ELSE LET id == Len(table) + 1
         IN  [err |-> FALSE, row |-> [rec EXCEPT !.ID = id],
              record |-> [rec EXCEPT !.ID = id]]

\* ORDER BY timestamp ASC (rows of equal timestamp in rowid order)
ByTimestamp(rows) ==
    SortSeq(rows, LAMBDA a, b : a.Timestamp < b.Timestamp
                                \/ (a.Timestamp = b.Timestamp /\ a.ID < b.ID))

\* Repository.GetUserAttendanceToday without "AND date = ?"
GetUserAttendanceAnyDate(table, userID, date) ==
    ByTimestamp(SelectSeq(table, LAMBDA r : r.UserID = userID))

\* Repository.GetUserAttendanceToday without "user_id = ?"
GetUserAttendanceTodayAllUsers(table, userID, date) ==
    ByTimestamp(SelectSeq(table, LAMBDA r : r.Date = date))

\* Repository.GetUserAttendanceToday
GetUserAttendanceToday(table, userID, date) ==
    ByTimestamp(SelectSeq(table, LAMBDA r : r.UserID = userID /\ r.Date = date))

\* Repository.GetUserAttendanceStatus: the loop over the day's records
RECURSIVE ScanStatus(_, _)
ScanStatus(status, records) ==
    IF records = <<>> THEN status
    ELSE LET record == Head(records)
             next == IF record.Type = CheckIn
                        THEN [status EXCEPT !.HasCheckedIn = TRUE, !.CheckInRecord = record]
                     ELSE IF record.Type = CheckOut
                        THEN [status EXCEPT !.HasCheckedOut = TRUE, !.CheckOutRecord = record]
                     ELSE status
         IN  ScanStatus(next, Tail(records))

\* a status whose two references share one variable: both denote the last
\* record the loop visited
GetUserAttendanceStatusShared(table, userID, date) ==
    LET records == GetUserAttendanceToday(table, userID, date)
        last == IF records = <<>> THEN NoRecord ELSE records[Len(records)]
        kinds == {records[i].Type : i \in 1..Len(records)}
    IN  [HasCheckedIn |-> CheckIn \in kinds, HasCheckedOut |-> CheckOut \in kinds,
         CheckInRecord |-> IF CheckIn \in kinds THEN last ELSE NoRecord,
         CheckOutRecord |-> IF CheckOut \in kinds THEN last ELSE NoRecord]

GetUserAttendanceStatus(table, userID, date) ==
    ScanStatus([HasCheckedIn |-> FALSE, HasCheckedOut |-> FALSE,
                CheckInRecord |-> NoRecord, CheckOutRecord |-> NoRecord],
               GetUserAttendanceToday(table, userID, date))

\* ------------------------------------------------------- MarkAttendance
NoCall == [user |-> 0, now |-> 0, date |-> 0, type |-> Nil, exists |-> FALSE,
           first |-> Nil, last |-> Nil]
\* what a call returned, with the user and the date key it was made for
\* (faulted names the store accesses of the call that failed: "store" for a
\* query or a write, "alias" for an alias lookup made to render a name; out
\* is what a report or query call returned)
NoStatus == [HasCheckedIn |-> FALSE, HasCheckedOut |-> FALSE,
             CheckInRecord |-> NoRecord, CheckOutRecord |-> NoRecord]
NoOut == [rows |-> <<>>, users |-> 0, checkIns |-> 0, checkOuts |-> 0, days |-> <<>>,
          status |-> NoStatus]
NoResult == [user |-> 0, date |-> 0, kind |-> "none", Success |-> FALSE,
             Record |-> NoRecord, err |-> FALSE, faulted |-> {}, out |-> NoOut]

\* an unsuccessful AttendanceResult with a nil error
Unsuccessful(u, d, kind) ==
    [NoResult EXCEPT !.user = u, !.date = d, !.kind = kind]
\* (nil, error)
Failure(u, d, kind) ==
    [NoResult EXCEPT !.user = u, !.date = d, !.kind = kind, !.err = TRUE]
\* the successful AttendanceResult carrying the saved record
Recorded(u, d, rec) ==
    [NoResult EXCEPT !.user = u, !.date = d, !.kind = "Recorded", !.Success = TRUE,
                     !.Record = rec]

\* the candidates a user may send: the authenticator's code of any observed
\* instant, the code that expired two steps ago, the current code with a
\* blank before it or a line break after it, texts that are not six digits,
\* and the current code of an authenticator that holds a well-formed secret
Malformed == {<<"1", "2", "3", "4", "5">>, <<"1", "2", "3", "4", "5", "a">>}
Candidates(sec, now) ==
    {Generate(sec, t) : t \in Instants}
    \cup {Generate(sec, now - 2 * TimeStep)}
    \cup {<<" ">> \o Generate(sec, now), Generate(sec, now) \o <<"\n">>}
    \cup Malformed
    \cup {Generate(GoodSecret, now)}

\* a MarkAttendance that treats the codes of the tolerated steps as consumed
\* once an event was recorded at one of these steps
BeginSingleUse(p, u, otp) ==
    /\ pc[p] \in {"idle", "done"}
    /\ calls < MaxCalls
    /\ calls' = calls + 1
    /\ IF ~ValidateOTP(otp)
          THEN /\ result' = [result EXCEPT ![p] = Unsuccessful(u, 0, "InvalidFormat")]
               /\ pc' = [pc EXCEPT ![p] = "done"]
               /\ call' = [call EXCEPT ![p] = NoCall]
       ELSE IF \/ ~Verify(secret, otp, clock)
               \/ \E i \in 1..Len(attendance), k \in VerifySteps :
                     attendance[i].Timestamp \div TimeStep = (clock \div TimeStep) + k
          THEN /\ result' = [result EXCEPT ![p] = Unsuccessful(u, 0, "InvalidOrExpired")]
               /\ pc' = [pc EXCEPT ![p] = "done"]
               /\ call' = [call EXCEPT ![p] = NoCall]
       ELSE /\ result' = [result EXCEPT ![p] = NoResult]
            /\ pc' = [pc EXCEPT ![p] = "clock"]
            /\ call' = [call EXCEPT ![p] = [NoCall EXCEPT !.user = u]]
    /\ UNCHANGED <<totp, clock, secret, attendance, aliases>>
    /\ UNCHANGED botVars

\* MarkAttendance up to the TOTP check: ValidateOTP, then Verify
Begin(p, u, otp) ==
    /\ pc[p] \in {"idle", "done"}
    /\ calls < MaxCalls
    /\ calls' = calls + 1
    /\ IF ~ValidateOTP(otp)
          THEN /\ result' = [result EXCEPT ![p] = Unsuccessful(u, 0, "InvalidFormat")]
               /\ pc' = [pc EXCEPT ![p] = "done"]
               /\ call' = [call EXCEPT ![p] = NoCall]
       ELSE IF ~Verify(secret, otp, clock)
          THEN /\ result' = [result EXCEPT ![p] = Unsuccessful(u, 0, "InvalidOrExpired")]
               /\ pc' = [pc EXCEPT ![p] = "done"]
               /\ call' = [call EXCEPT ![p] = NoCall]
       ELSE /\ result' = [result EXCEPT ![p] = NoResult]
            /\ pc' = [pc EXCEPT ![p] = "clock"]
            /\ call' = [call EXCEPT ![p] = [NoCall EXCEPT !.user = u]]
    /\ UNCHANGED <<totp, clock, secret, attendance, aliases>>
    /\ UNCHANGED botVars

\* now := utils.NowInJakarta(); dateKey := utils.FormatDate(now, "yyyy-MM-dd")
ReadClock(p) ==
    /\ pc[p] = "clock"
    /\ call' = [call EXCEPT ![p].now = clock, ![p].date = DateKey(clock)]
    /\ pc' = [pc EXCEPT ![p] = "status"]
    /\ UNCHANGED <<totp, clock, secret, attendance, aliases, result, calls>>
    /\ UNCHANGED botVars

\* a decision that never reaches the departure
DecideTypeArrivalOnly(status) == IF ~status.HasCheckedIn THEN CheckIn ELSE Nil

\* a decision that never reaches AlreadyComplete
DecideTypeRepeatCheckOut(status) == IF ~status.HasCheckedIn THEN CheckIn ELSE CheckOut

\* the attendance type MarkAttendance decides from the status, Nil when the
\* day is complete
DecideType(status) ==
    IF ~status.HasCheckedIn THEN CheckIn
    ELSE IF ~status.HasCheckedOut THEN CheckOut
    ELSE Nil

\* s.repo.GetUserAttendanceStatus(userID, dateKey) and the branch on it
LoadStatus(p) ==
    /\ pc[p] = "status"
    /\ LET status == GetUserAttendanceStatus(attendance, call[p].user, call[p].date)
           type == DecideType(status)
       IN  IF type = Nil
              THEN /\ result' = [result EXCEPT
                        ![p] = Unsuccessful(call[p].user, call[p].date, "AlreadyComplete")]
                   /\ pc' = [pc EXCEPT ![p] = "done"]
                   /\ call' = [call EXCEPT ![p] = NoCall]
           ELSE /\ call' = [call EXCEPT ![p].type = type]
                /\ pc' = [pc EXCEPT ![p] = "insert"]
                /\ UNCHANGED result
    /\ UNCHANGED <<totp, clock, secret, attendance, aliases, calls>>
    /\ UNCHANGED botVars

\* the models.AttendanceRecord MarkAttendance builds
NewRecord(c) ==
    [ID |-> 0, UserID |-> c.user, FirstName |-> FirstNameOf(c.user),
     LastName |-> LastNameOf(c.user), Timestamp |-> c.now, Type |-> c.type,
     Date |-> c.date]

\* what MarkAttendance returns when InsertAttendance returns an error
InsertRefused(c) == Failure(c.user, c.date, "SaveFailed")

\* s.repo.InsertAttendance(record) and the return
Insert(p) ==
    /\ pc[p] = "insert"
    /\ LET saved == InsertAttendance(attendance, NewRecord(call[p]))
       IN  IF saved.err
              THEN /\ result' = [result EXCEPT ![p] = InsertRefused(call[p])]
                   /\ UNCHANGED attendance
           ELSE /\ attendance' = Append(attendance, saved.row)
                /\ result' = [result EXCEPT
                      ![p] = Recorded(call[p].user, call[p].date, saved.record)]
    /\ pc' = [pc EXCEPT ![p] = "done"]
    /\ call' = [call EXCEPT ![p] = NoCall]
    /\ UNCHANGED <<totp, clock, secret, aliases, calls>>
    /\ UNCHANGED botVars

\* the wall clock moves on to a later observed instant
Tick ==
    /\ \E t \in Instants : t > clock /\ clock' = t
    /\ UNCHANGED <<totp, secret, attendance, aliases, pc, call, result, calls>>
    /\ UNCHANGED botVars

\* ------------------------------------------------- store failures
\* GetUserAttendanceStatus returns an error: MarkAttendance returns (nil, err)
LoadStatusFails(p) ==
    /\ pc[p] = "status"
    /\ result' = [result EXCEPT
          ![p] = [Failure(call[p].user, call[p].date, "StatusFailed") EXCEPT
                    !.faulted = {"store"}]]
    /\ pc' = [pc EXCEPT ![p] = "done"]
    /\ call' = [call EXCEPT ![p] = NoCall]
    /\ UNCHANGED <<totp, clock, secret, attendance, aliases, calls>>
    /\ UNCHANGED botVars

\* the status query fails while its rows are being read: rows.Next() returns
\* false, GetUserAttendanceToday never asks rows.Err() and returns the rows
\* read so far with a nil error, and MarkAttendance decides on that part
LoadStatusTruncated(p) ==
    /\ pc[p] = "status"
    /\ LET records == GetUserAttendanceToday(attendance, call[p].user, call[p].date)
       IN  \E k \in 0..(Len(records) - 1) :
              LET status == ScanStatus(NoStatus, SubSeq(records, 1, k))
                  type == DecideType(status)
              IN  IF type = Nil
                     THEN /\ result' = [result EXCEPT
                               ![p] = Unsuccessful(call[p].user, call[p].date, "AlreadyComplete")]
                          /\ pc' = [pc EXCEPT ![p] = "done"]
                          /\ call' = [call EXCEPT ![p] = NoCall]
                  ELSE /\ call' = [call EXCEPT ![p].type = type]
                       /\ pc' = [pc EXCEPT ![p] = "insert"]
                       /\ UNCHANGED result
    /\ UNCHANGED <<totp, clock, secret, attendance, aliases, calls>>
    /\ UNCHANGED botVars

\* the INSERT fails for a reason other than the uniqueness constraint
InsertFails(p) ==
    /\ pc[p] = "insert"
    /\ result' = [result EXCEPT ![p] = [InsertRefused(call[p]) EXCEPT !.faulted = {"store"}]]
    /\ pc' = [pc EXCEPT ![p] = "done"]
    /\ call' = [call EXCEPT ![p] = NoCall]
    /\ UNCHANGED <<totp, clock, secret, attendance, aliases, calls>>
    /\ UNCHANGED botVars

\* ------------------------------------------------------------ aliases
\* Repository.GetUserAlias: the alias row of the user, NoAlias for no row
GetUserAlias(table, userID) ==
    LET found == SelectSeq(table, LAMBDA a : a.UserID = userID)
    IN  IF found = <<>> THEN NoAlias ELSE found[1]

\* the names /alias may set
AliasFirstNames == {"Bos", "Budi"}
AliasLastNames == {Nil, "Besar"}

\* Repository.SetUserAlias, the SELECT EXISTS
AliasCheck(p, u, first, last, fails) ==
    /\ pc[p] \in {"idle", "done"}
    /\ calls < MaxCalls
    /\ calls' = calls + 1
    /\ IF fails
          THEN /\ result' = [result EXCEPT
                     ![p] = [Failure(u, 0, "AliasFailed") EXCEPT !.faulted = {"store"}]]
               /\ pc' = [pc EXCEPT ![p] = "done"]
               /\ call' = [call EXCEPT ![p] = NoCall]
       ELSE /\ result' = [result EXCEPT ![p] = NoResult]
            /\ pc' = [pc EXCEPT ![p] = "aliasWrite"]
            /\ call' = [call EXCEPT ![p] = [NoCall EXCEPT
                          !.user = u, !.first = first, !.last = last,
                          !.exists = (GetUserAlias(aliases, u) # NoAlias)]]
    /\ UNCHANGED <<totp, clock, secret, attendance, aliases>>
    /\ UNCHANGED botVars

\* an UPDATE that leaves the stored last name when the new one is NULL
UpdateAliasKeepsLastName(table, u, first, last) ==
    [i \in 1..Len(table) |->
        IF table[i].UserID = u
        THEN [table[i] EXCEPT !.FirstName = first,
                              !.LastName = IF last = Nil THEN @ ELSE last]
        ELSE table[i]]

\* UPDATE alias SET first_name, last_name WHERE user_id
UpdateAlias(table, u, first, last) ==
    [i \in 1..Len(table) |->
        IF table[i].UserID = u
        THEN [table[i] EXCEPT !.FirstName = first, !.LastName = last]
        ELSE table[i]]

\* an alias write that also renames the user's stored events
AliasWriteRenamesEvents(p, fails) ==
    /\ pc[p] = "aliasWrite"
    /\ LET c == call[p]
       IN  /\ aliases' = IF c.exists THEN UpdateAlias(aliases, c.user, c.first, c.last)
                         ELSE Append(aliases, [UserID |-> c.user, FirstName |-> c.first,
                                              LastName |-> c.last])
           /\ attendance' = [i \in 1..Len(attendance) |->
                                IF attendance[i].UserID = c.user
                                THEN [attendance[i] EXCEPT !.FirstName = c.first,
                                                           !.LastName = c.last]
                                ELSE attendance[i]]
           /\ result' = [result EXCEPT ![p] = Unsuccessful(c.user, 0, "AliasSet")]
    /\ pc' = [pc EXCEPT ![p] = "done"]
    /\ call' = [call EXCEPT ![p] = NoCall]
    /\ UNCHANGED <<totp, clock, secret, calls>>
    /\ UNCHANGED botVars

\* Repository.SetUserAlias, the UPDATE or the INSERT (user_id is the
\* PRIMARY KEY of the alias table)
AliasWrite(p, fails) ==
    /\ pc[p] = "aliasWrite"
    /\ LET c == call[p]
           refused == ~c.exists /\ GetUserAlias(aliases, c.user) # NoAlias
       IN  IF fails \/ refused
              THEN /\ result' = [result EXCEPT
                         ![p] = [Failure(c.user, 0, "AliasFailed") EXCEPT
                                   !.faulted = IF fails THEN {"store"} ELSE {}]]
                   /\ UNCHANGED aliases
           ELSE /\ aliases' = IF c.exists
                                 THEN UpdateAlias(aliases, c.user, c.first, c.last)
                              ELSE Append(aliases, [UserID |-> c.user,
                                                   FirstName |-> c.first,
                                                   LastName |-> c.last])
                /\ result' = [result EXCEPT ![p] = Unsuccessful(c.user, 0, "AliasSet")]
    /\ pc' = [pc EXCEPT ![p] = "done"]
    /\ call' = [call EXCEPT ![p] = NoCall]
    /\ UNCHANGED <<totp, clock, secret, attendance, calls>>
    /\ UNCHANGED botVars

\* Service.formatUserName: the alias when the lookup succeeds and finds one,
\* the record's own name otherwise; a name is the list of its parts
formatUserName(record, table, lookupFails) ==
    LET found == GetUserAlias(table, record.UserID)
    IN  IF ~lookupFails /\ found # NoAlias
        THEN IF found.LastName # Nil /\ found.LastName # ""
                THEN <<found.FirstName, found.LastName>>
             ELSE <<found.FirstName>>
        ELSE IF record.LastName # Nil /\ record.LastName # ""
                THEN <<record.FirstName, record.LastName>>
             ELSE <<record.FirstName>>

\* ------------------------------------------------------------ reports
\* a.* of attendance a LEFT JOIN alias al ON a.user_id = al.user_id
RECURSIVE LeftJoinAlias(_, _)
LeftJoinAlias(rows, table) ==
    IF rows = <<>> THEN <<>>
    ELSE LET n == Len(SelectSeq(table, LAMBDA a : a.UserID = Head(rows).UserID))
         IN  [i \in 1..(IF n = 0 THEN 1 ELSE n) |-> Head(rows)]
             \o LeftJoinAlias(Tail(rows), table)

\* a daily report query without "WHERE a.date = ?"
GetDailyReportAnyDate(table, aliasTable, date) ==
    ByTimestamp(LeftJoinAlias(table, aliasTable))

\* Repository.GetDailyReport
GetDailyReport(table, aliasTable, date) ==
    ByTimestamp(LeftJoinAlias(SelectSeq(table, LAMBDA r : r.Date = date), aliasTable))

\* ORDER BY a.date ASC, a.timestamp ASC
ByDateThenTimestamp(rows) ==
    SortSeq(rows, LAMBDA a, b :
        \/ a.Date < b.Date
        \/ a.Date = b.Date /\ a.Timestamp < b.Timestamp
        \/ a.Date = b.Date /\ a.Timestamp = b.Timestamp /\ a.ID < b.ID)

\* Repository.GetAttendanceReportRange with "a.date >= ? AND a.date < ?"
GetAttendanceReportRangeExclusive(table, aliasTable, startDate, endDate) ==
    ByDateThenTimestamp(
        LeftJoinAlias(SelectSeq(table, LAMBDA r : startDate <= r.Date /\ r.Date < endDate),
                      aliasTable))

\* Repository.GetAttendanceReportRange
GetAttendanceReportRange(table, aliasTable, startDate, endDate) ==
    ByDateThenTimestamp(
        LeftJoinAlias(SelectSeq(table, LAMBDA r : startDate <= r.Date /\ r.Date <= endDate),
                      aliasTable))

\* ORDER BY date DESC, timestamp ASC
ByDateDescThenTimestamp(rows) ==
    SortSeq(rows, LAMBDA a, b :
        \/ a.Date > b.Date
        \/ a.Date = b.Date /\ a.Timestamp < b.Timestamp
        \/ a.Date = b.Date /\ a.Timestamp = b.Timestamp /\ a.ID < b.ID)

\* SQLite's date('now'): the calendar date in UTC
UTCDate(t) == t \div SecondsPerDay

\* Repository.GetUserAttendanceHistory:
\* WHERE user_id = ? AND date >= date('now', '-' || ? || ' days')
GetUserAttendanceHistory(table, userID, days, now) ==
    ByDateDescThenTimestamp(
        SelectSeq(table, LAMBDA r : r.UserID = userID /\ r.Date >= UTCDate(now) - days))

\* integer division truncating toward zero, as Go's conversions and % do
TruncDiv(a, b) == IF a >= 0 THEN a \div b ELSE -((-a) \div b)
TruncMod(a, b) == a - b * TruncDiv(a, b)

\* a duration whose minutes are all the elapsed minutes (no "% 60")
CalculateWorkDurationTotalMinutes(checkIn, checkOut) ==
    LET duration == checkOut - checkIn
        hours == TruncDiv(duration, 3600)
        minutes == TruncDiv(duration, 60)
    IN  [hours |-> IF hours > 0 THEN hours ELSE 0, minutes |-> minutes,
         withHours |-> hours > 0]

\* utils.CalculateWorkDuration: hours and minutes, and whether the text
\* shows the hours
CalculateWorkDuration(checkIn, checkOut) ==
    LET duration == checkOut - checkIn
        hours == TruncDiv(duration, 3600)
        minutes == TruncMod(TruncDiv(duration, 60), 60)
    IN  [hours |-> IF hours > 0 THEN hours ELSE 0, minutes |-> minutes,
         withHours |-> hours > 0]

\* utils.FormatTime(t, "HH:mm"): hour and minute on the Jakarta wall clock
FormatTime(t) ==
    <<((t + JakartaOffset) % SecondsPerDay) \div 3600,
      (((t + JakartaOffset) % SecondsPerDay) % 3600) \div 60>>

LateHour == 9
\* a late flag raised only after the ninth hour
IsLateAfterNine(t) == HourOf(t) > LateHour
\* Timestamp.Hour() >= 9: the arrival is flagged late
IsLate(t) == HourOf(t) >= LateHour
NoTime == <<>>
NoDuration == [hours |-> 0, minutes |-> 0, withHours |-> FALSE]

\* the record GenerateAttendanceReport keeps for a user and a type: the last
\* one of the day's records
RECURSIVE LastOf(_, _, _)
LastOf(records, u, type) ==
    IF records = <<>> THEN NoRecord
    ELSE LET r == records[Len(records)]
         IN  IF r.UserID = u /\ r.Type = type THEN r
             ELSE LastOf(SubSeq(records, 1, Len(records) - 1), u, type)

\* a daily report in which every user's entry is read off the day's first
\* arrival and last departure, whoever they belong to
ReportEntryShared(records, table, u, index, lookupFails) ==
    LET own == LastOf(records, u, CheckIn)
        arrivals == SelectSeq(records, LAMBDA r : r.Type = CheckIn)
        departures == SelectSeq(records, LAMBDA r : r.Type = CheckOut)
        checkInRec == IF arrivals = <<>> THEN NoRecord ELSE arrivals[1]
        checkOutRec == IF departures = <<>> THEN NoRecord
                       ELSE departures[Len(departures)]
    IN  [index |-> index,
         name |-> IF own # NoRecord THEN formatUserName(own, table, lookupFails)
                  ELSE <<>>,
         masuk |-> IF checkInRec # NoRecord THEN FormatTime(checkInRec.Timestamp)
                   ELSE NoTime,
         late |-> checkInRec # NoRecord /\ IsLate(checkInRec.Timestamp),
         pulang |-> IF checkOutRec # NoRecord THEN FormatTime(checkOutRec.Timestamp)
                    ELSE NoTime,
         durasi |-> IF checkInRec # NoRecord /\ checkOutRec # NoRecord
                       THEN CalculateWorkDuration(checkInRec.Timestamp,
                                                  checkOutRec.Timestamp)
                    ELSE NoDuration]

\* one user's lines of the daily report
ReportEntry(records, table, u, index, lookupFails) ==
    LET checkInRec == LastOf(records, u, CheckIn)
        checkOutRec == LastOf(records, u, CheckOut)
    IN  [index |-> index,
         name |-> IF checkInRec # NoRecord
                     THEN formatUserName(checkInRec, table, lookupFails)
                  ELSE IF checkOutRec # NoRecord
                     THEN formatUserName(checkOutRec, table, lookupFails)
                  ELSE <<>>,
         masuk |-> IF checkInRec # NoRecord THEN FormatTime(checkInRec.Timestamp)
                   ELSE NoTime,
         late |-> checkInRec # NoRecord /\ IsLate(checkInRec.Timestamp),
         pulang |-> IF checkOutRec # NoRecord THEN FormatTime(checkOutRec.Timestamp)
                    ELSE NoTime,
         durasi |-> IF checkInRec # NoRecord /\ checkOutRec # NoRecord
                       THEN CalculateWorkDuration(checkInRec.Timestamp,
                                                  checkOutRec.Timestamp)
                    ELSE NoDuration]

\* the orders in which a Go map over the users may be iterated
Orders(S) == {o \in [1..Cardinality(S) -> S] : \A i, j \in DOMAIN o : i # j => o[i] # o[j]}

\* Service.GenerateAttendanceReport; queryFails is the failure of
\* GetDailyReport, lookupFails the users whose alias lookup fails
GenerateAttendanceReport(p, queryFails, lookupFails) ==
    /\ pc[p] \in {"idle", "done"}
    /\ calls < MaxCalls
    /\ calls' = calls + 1
    /\ LET today == DateKey(clock)
           records == GetDailyReport(attendance, aliases, today)
           users == {records[i].UserID : i \in 1..Len(records)}
       IN  IF queryFails
              THEN result' = [result EXCEPT
                      ![p] = [Failure(0, today, "ReportFailed") EXCEPT !.faulted = {"store"}]]
           ELSE IF records = <<>>
              THEN result' = [result EXCEPT ![p] = Unsuccessful(0, today, "ReportEmpty")]
           ELSE \E order \in Orders(users) :
                  result' = [result EXCEPT
                      ![p] = [Unsuccessful(0, today, "Report") EXCEPT
                         !.faulted = IF lookupFails \cap users # {} THEN {"alias"}
                                     ELSE {},
                         !.out = [days |-> <<>>, status |-> NoStatus,
                                  rows |-> [i \in 1..Len(order) |->
                                      ReportEntry(records, aliases, order[i], i,
                                                  order[i] \in lookupFails)],
                                  users |-> Cardinality(users),
                                  checkIns |-> Cardinality({u \in users :
                                      LastOf(records, u, CheckIn) # NoRecord}),
                                  checkOuts |-> Cardinality({u \in users :
                                      LastOf(records, u, CheckOut) # NoRecord})]]]
    /\ pc' = [pc EXCEPT ![p] = "done"]
    /\ call' = [call EXCEPT ![p] = NoCall]
    /\ UNCHANGED <<totp, clock, secret, attendance, aliases>>
    /\ UNCHANGED botVars

\* the dates of the records in the order of their first appearance
\* (formatHistoryMessage appends a date when it first meets it)
RECURSIVE DatesOf(_)
DatesOf(records) ==
    IF records = <<>> THEN <<>>
    ELSE LET rest == DatesOf(SubSeq(records, 1, Len(records) - 1))
             d == records[Len(records)].Date
         IN  IF \E i \in 1..Len(rest) : rest[i] = d THEN rest ELSE Append(rest, d)

\* dailyRecords[date][type] of formatHistoryMessage: the last record of the
\* date and the type
RECURSIVE LastOfDay(_, _, _)
LastOfDay(records, date, type) ==
    IF records = <<>> THEN NoRecord
    ELSE LET r == records[Len(records)]
         IN  IF r.Date = date /\ r.Type = type THEN r
             ELSE LastOfDay(SubSeq(records, 1, Len(records) - 1), date, type)

\* Bot.formatHistoryMessage: the day entries in the order they are written,
\* by "for i := len(dates) - 1; i >= 0; i--" with the number len(dates)-i
formatHistoryMessage(records) ==
    LET dates == DatesOf(records)
        n == Len(dates)
    IN  [k \in 1..n |->
            LET date == dates[n - k + 1]
                checkIn == LastOfDay(records, date, CheckIn)
                checkOut == LastOfDay(records, date, CheckOut)
            IN  [index |-> k,
                 date |-> date,
                 masuk |-> IF checkIn # NoRecord THEN FormatTime(checkIn.Timestamp)
                           ELSE NoTime,
                 late |-> checkIn # NoRecord /\ IsLate(checkIn.Timestamp),
                 pulang |-> IF checkOut # NoRecord THEN FormatTime(checkOut.Timestamp)
                            ELSE NoTime]]

\* the windows Service.GetUserAttendanceHistory is asked for (/history asks
\* for 30 days)
WindowDays == {0, 1, 30}

\* Bot.handleHistory: Service.GetUserAttendanceHistory and, for a history
\* that is not empty, formatHistoryMessage
History(p, u, days, fails) ==
    /\ pc[p] \in {"idle", "done"}
    /\ calls < MaxCalls
    /\ calls' = calls + 1
    /\ result' = [result EXCEPT ![p] =
          IF fails THEN [Failure(u, 0, "HistoryFailed") EXCEPT !.faulted = {"store"}]
          ELSE [Unsuccessful(u, 0, "History") EXCEPT
                  !.out = [NoOut EXCEPT
                     !.rows = GetUserAttendanceHistory(attendance, u, days, clock),
                     !.days = formatHistoryMessage(
                                 GetUserAttendanceHistory(attendance, u, days, clock))]]]
    /\ pc' = [pc EXCEPT ![p] = "done"]
    /\ call' = [call EXCEPT ![p] = NoCall]
    /\ UNCHANGED <<totp, clock, secret, attendance, aliases>>
    /\ UNCHANGED botVars

\* Bot.handleStatus: the status of the user on GetTodayDate() and the
\* times and the duration its message shows
Status(p, u, fails) ==
    /\ pc[p] \in {"idle", "done"}
    /\ calls < MaxCalls
    /\ calls' = calls + 1
    /\ LET today == DateKey(clock)
           status == GetUserAttendanceStatus(attendance, u, today)
       IN  result' = [result EXCEPT ![p] =
              IF fails
              THEN [Failure(u, today, "StatusFailed") EXCEPT !.faulted = {"store"}]
              ELSE [Unsuccessful(u, today, "Status") EXCEPT
                      !.out = [NoOut EXCEPT
                         !.status = status,
                         !.rows = <<[masuk |-> IF status.HasCheckedIn
                                                 THEN FormatTime(status.CheckInRecord.Timestamp)
                                               ELSE NoTime,
                                     pulang |-> IF status.HasCheckedIn /\ status.HasCheckedOut
                                                  THEN FormatTime(status.CheckOutRecord.Timestamp)
                                                ELSE NoTime,
                                     durasi |-> IF status.HasCheckedIn /\ status.HasCheckedOut
                                                  THEN CalculateWorkDuration(
                                                          status.CheckInRecord.Timestamp,
                                                          status.CheckOutRecord.Timestamp)
                                                ELSE NoDuration]>>]]]
    /\ pc' = [pc EXCEPT ![p] = "done"]
    /\ call' = [call EXCEPT ![p] = NoCall]
    /\ UNCHANGED <<totp, clock, secret, attendance, aliases>>
    /\ UNCHANGED botVars

\* utils.FormatTime(t, "HH:mm:ss")
FormatTimeSeconds(t) ==
    <<((t + JakartaOffset) % SecondsPerDay) \div 3600,
      (((t + JakartaOffset) % SecondsPerDay) % 3600) \div 60,
      (t + JakartaOffset) % 60>>

\* CSVGenerator.GenerateUserReport: one row per date of the records, written
\* in the order the iteration over the dailyRecords map takes
GenerateUserReport(records, order) ==
    [k \in 1..Len(order) |->
        LET checkIn == LastOfDay(records, order[k], CheckIn)
            checkOut == LastOfDay(records, order[k], CheckOut)
        IN  [date |-> order[k],
             masuk |-> IF checkIn # NoRecord THEN FormatTimeSeconds(checkIn.Timestamp)
                       ELSE NoTime,
             pulang |-> IF checkOut # NoRecord THEN FormatTimeSeconds(checkOut.Timestamp)
                        ELSE NoTime,
             durasi |-> IF checkIn # NoRecord /\ checkOut # NoRecord
                           THEN CalculateWorkDuration(checkIn.Timestamp,
                                                      checkOut.Timestamp)
                        ELSE NoDuration,
             status |-> IF checkIn = NoRecord THEN "Absent"
                        ELSE IF IsLate(checkIn.Timestamp) THEN "Late"
                        ELSE "Present"]]

\* the user report of a user's history of 30 days (the records its comments
\* expect: newest first); an error for no records
UserReport(p, u) ==
    /\ pc[p] \in {"idle", "done"}
    /\ calls < MaxCalls
    /\ calls' = calls + 1
    /\ LET records == GetUserAttendanceHistory(attendance, u, 30, clock)
           dates == {records[i].Date : i \in 1..Len(records)}
       IN  IF records = <<>>
              THEN result' = [result EXCEPT ![p] = Failure(u, 0, "UserReportFailed")]
           ELSE \E order \in Orders(dates) :
                  result' = [result EXCEPT ![p] =
                      [Unsuccessful(u, 0, "UserReport") EXCEPT
                          !.out = [NoOut EXCEPT
                              !.days = GenerateUserReport(records, order)]]]
    /\ pc' = [pc EXCEPT ![p] = "done"]
    /\ call' = [call EXCEPT ![p] = NoCall]
    /\ UNCHANGED <<totp, clock, secret, attendance, aliases>>
    /\ UNCHANGED botVars

\* Service.GetAttendanceReportRange
RangeExport(p, startDate, endDate, fails) ==
    /\ pc[p] \in {"idle", "done"}
    /\ calls < MaxCalls
    /\ calls' = calls + 1
    /\ result' = [result EXCEPT ![p] =
          IF fails THEN [Failure(0, 0, "RangeFailed") EXCEPT !.faulted = {"store"}]
          ELSE [Unsuccessful(0, 0, "Range") EXCEPT
                  !.out = [NoOut EXCEPT
                     !.rows = GetAttendanceReportRange(attendance, aliases,
                                                       startDate, endDate)]]]
    /\ pc' = [pc EXCEPT ![p] = "done"]
    /\ call' = [call EXCEPT ![p] = NoCall]
    /\ UNCHANGED <<totp, clock, secret, attendance, aliases>>
    /\ UNCHANGED botVars

Init ==
    /\ clock = FirstInstant
    /\ secret \in Secrets
    /\ attendance = <<>>
    /\ aliases = <<>>
    /\ pc = [p \in Procs |-> "idle"]
    /\ call = [p \in Procs |-> NoCall]
    /\ result = [p \in Procs |-> NoResult]
    /\ calls = 0
    /\ totp = NoTotp
    /\ NewBot

MarkStep(p) ==
    \/ \E u \in Users : \E otp \in Candidates(secret, clock) : Begin(p, u, otp)
    \/ ReadClock(p)
    \/ LoadStatus(p)
    \/ Insert(p)

\* callers in any interleaving
Next ==
    \/ \E p \in Procs : MarkStep(p)
    \/ Tick

Spec == Init /\ [][Next]_vars

\* the reference deployment: one request is processed to completion before
\* the next is taken up
Quiet(p) == \A q \in Procs \ {p} : pc[q] \in {"idle", "done"}

NextSeq ==
    \/ \E p \in Procs : Quiet(p) /\ MarkStep(p)
    \/ Tick

SpecSeq == Init /\ [][NextSeq]_vars

\* the last slot of a day: the table as an earlier run left it, with user 1
\* checked in at the first instant, and every caller making at most one call
RaceUser == CHOOSE u \in Users : \A v \in Users : u <= v
RaceDate == DateKey(FirstInstant)
ArrivalRow ==
    [ID |-> 1, UserID |-> RaceUser, FirstName |-> FirstNameOf(RaceUser),
     LastName |-> LastNameOf(RaceUser), Timestamp |-> FirstInstant, Type |-> CheckIn,
     Date |-> RaceDate]

InitRace ==
    /\ clock \in {t \in Instants : DateKey(t) = RaceDate}
    /\ secret = GoodSecret
    /\ attendance = <<ArrivalRow>>
    /\ aliases = <<>>
    /\ pc = [p \in Procs |-> "idle"]
    /\ call = [p \in Procs |-> NoCall]
    /\ result = [p \in Procs |-> NoResult]
    /\ calls = 0
    /\ totp = NoTotp
    /\ NewBot

NextRace ==
    \/ \E p \in Procs : pc[p] # "done" /\ MarkStep(p)
    \/ Tick

SpecRace == InitRace /\ [][NextRace]_vars

\* every operation of the service, called from the polling loop one request
\* at a time, over a store whose accesses may fail
OpStep(p) ==
    \/ LoadStatusFails(p)
    \/ LoadStatusTruncated(p)
    \/ InsertFails(p)
    \/ \E u \in Users, first \in AliasFirstNames, last \in AliasLastNames, f \in BOOLEAN :
          AliasCheck(p, u, first, last, f)
    \/ \E f \in BOOLEAN : AliasWrite(p, f)
    \/ \E f \in BOOLEAN, lf \in SUBSET Users : GenerateAttendanceReport(p, f, lf)
    \/ \E u \in Users, days \in WindowDays, f \in BOOLEAN : History(p, u, days, f)
    \/ \E d1, d2 \in Days \cup {MaxDay + 1}, f \in BOOLEAN : RangeExport(p, d1, d2, f)

\* the polling loop is the one caller
Poller == CHOOSE p \in Procs : \A q \in Procs : p <= q

NextOps ==
    \/ MarkStep(Poller)
    \/ OpStep(Poller)
    \/ Tick

SpecOps == Init /\ [][NextOps]_vars

\* Service.SetUserAlias called by callers in any interleaving, over a store
\* whose accesses succeed
AliasStep(p) ==
    \/ \E u \in Users, first \in AliasFirstNames, last \in AliasLastNames :
          AliasCheck(p, u, first, last, FALSE)
    \/ AliasWrite(p, FALSE)

NextAlias == \E p \in Procs : AliasStep(p)

SpecAlias == Init /\ [][NextAlias]_vars

\* a working day: the polling loop marks attendance and renders the daily
\* report, the history and the user report while the clock passes 08:55,
\* 08:59:59, 09:00 and 17:30
TickDay ==
    /\ \E t \in WorkInstants : t > clock /\ clock' = t
    /\ UNCHANGED <<totp, secret, attendance, aliases, pc, call, result, calls>>
    /\ UNCHANGED botVars

InitDay ==
    /\ clock \in WorkInstants
    /\ secret = GoodSecret
    /\ attendance = <<>>
    /\ aliases = <<>>
    /\ pc = [p \in Procs |-> "idle"]
    /\ call = [p \in Procs |-> NoCall]
    /\ result = [p \in Procs |-> NoResult]
    /\ calls = 0
    /\ totp = NoTotp
    /\ NewBot

NextDay ==
    \/ MarkStep(Poller)
    \/ GenerateAttendanceReport(Poller, FALSE, {})
    \/ \E u \in Users : History(Poller, u, 30, FALSE)
    \/ \E u \in Users : UserReport(Poller, u)
    \/ \E u \in Users : Status(Poller, u, FALSE)
    \/ TickDay

SpecDay == InitDay /\ [][NextDay]_vars

\* one code sent again and again: the code the authenticator shows at the
\* first instant is the only candidate, sent by any user, one request at a
\* time, while the clock passes through the next two time steps
ReplayCode == Generate(GoodSecret, FirstInstant)

TickReplay ==
    /\ \E t \in ReplayInstants : t > clock /\ clock' = t
    /\ UNCHANGED <<totp, secret, attendance, aliases, pc, call, result, calls>>
    /\ UNCHANGED botVars

InitReplay ==
    /\ clock = FirstInstant
    /\ secret = GoodSecret
    /\ attendance = <<>>
    /\ aliases = <<>>
    /\ pc = [p \in Procs |-> "idle"]
    /\ call = [p \in Procs |-> NoCall]
    /\ result = [p \in Procs |-> NoResult]
    /\ calls = 0
    /\ totp = NoTotp
    /\ NewBot

NextReplay ==
    \/ \E p \in Procs :
          /\ Quiet(p)
          /\ \/ \E u \in Users : Begin(p, u, ReplayCode)
             \/ ReadClock(p)
             \/ LoadStatus(p)
             \/ Insert(p)
    \/ TickReplay

SpecReplay == InitReplay /\ [][NextReplay]_vars

\* ------------------------------------------------------------ startup
\* a validation that only asks for a TOTP_SECRET that is set
validateSecretIsSet(sec, othersValid) == othersValid /\ sec # <<>>

\* Config.validate: TOTP_SECRET is set and has at least 16 characters;
\* othersValid is what it finds of BOT_TOKEN and ADMIN_PASSWORD
validate(sec, othersValid) == othersValid /\ sec # <<>> /\ Len(sec) >= 16

\* main: config.Load() and, if it returns no error, NewService(repo,
\* cfg.TOTPSecret) and the polling loop; os.Exit(1) otherwise
Load(sec, othersValid) ==
    /\ \A p \in Procs : pc[p] = "boot"
    /\ IF validate(sec, othersValid)
          THEN /\ secret' = sec
               /\ pc' = [p \in Procs |-> "idle"]
       ELSE /\ pc' = [p \in Procs |-> "exit"]
            /\ UNCHANGED secret
    /\ UNCHANGED <<totp, clock, attendance, aliases, call, result, calls>>
    /\ UNCHANGED botVars

InitStart ==
    /\ clock = FirstInstant
    /\ secret = <<>>
    /\ attendance = <<>>
    /\ aliases = <<>>
    /\ pc = [p \in Procs |-> "boot"]
    /\ call = [p \in Procs |-> NoCall]
    /\ result = [p \in Procs |-> NoResult]
    /\ calls = 0
    /\ totp = NoTotp
    /\ NewBot

NextStart ==
    \/ \E sec \in EnvSecrets, othersValid \in BOOLEAN : Load(sec, othersValid)
    \/ MarkStep(Poller)
    \/ Tick

SpecStart == InitStart /\ [][NextStart]_vars

\* ------------------------------------------------- the TOTP service alone
\* the white space a user may type before or after a code
Blanks == {<<>>, <<" ">>, <<"\t">>, <<"\n">>}

\* texts that are no code of the service
OtherTokens == Malformed \cup {<<>>, <<"0", "0", "0", "0", "0", "0">>}

\* TOTPService.Generate at the instant t
Derive(t) ==
    /\ totp' = [NoTotp EXCEPT !.bare = Generate(secret, t), !.token = Generate(secret, t),
                              !.derivedAt = t]
    /\ UNCHANGED <<clock, secret, attendance, aliases, pc, call, result, calls>>
    /\ UNCHANGED botVars

\* the user types the code with white space before and after it
Decorate(pre, post) ==
    /\ totp.derivedAt # -1
    /\ totp.token = totp.bare
    /\ totp.checkedAt = -1
    /\ pre \o post # <<>>
    /\ totp' = [totp EXCEPT !.token = pre \o totp.bare \o post]
    /\ UNCHANGED <<clock, secret, attendance, aliases, pc, call, result, calls>>
    /\ UNCHANGED botVars

\* the user types the code in two groups of three
Split ==
    /\ totp.derivedAt # -1
    /\ totp.token = totp.bare
    /\ totp.checkedAt = -1
    /\ Len(totp.bare) = OTPLength
    /\ totp' = [totp EXCEPT !.token = SubSeq(totp.bare, 1, 3) \o <<" ">>
                                        \o SubSeq(totp.bare, 4, OTPLength)]
    /\ UNCHANGED <<clock, secret, attendance, aliases, pc, call, result, calls>>
    /\ UNCHANGED botVars

\* the user types a text that no authenticator showed
TypeOther(text) ==
    /\ totp' = [NoTotp EXCEPT !.bare = text, !.token = text]
    /\ UNCHANGED <<clock, secret, attendance, aliases, pc, call, result, calls>>
    /\ UNCHANGED botVars

\* utils.ValidateOTP and TOTPService.Verify of the typed text, now
Check ==
    /\ totp' = [totp EXCEPT !.checkedAt = clock,
                            !.accepted = Verify(secret, totp.token, clock),
                            !.wellFormed = ValidateOTP(totp.token)]
    /\ UNCHANGED <<clock, secret, attendance, aliases, pc, call, result, calls>>
    /\ UNCHANGED botVars

\* TOTPService.GetTimeRemaining, now
Remaining ==
    /\ totp' = [totp EXCEPT !.remainingAt = clock, !.remaining = GetTimeRemaining(clock)]
    /\ UNCHANGED <<clock, secret, attendance, aliases, pc, call, result, calls>>
    /\ UNCHANGED botVars

InitTotp ==
    /\ clock \in TotpInstants
    /\ secret \in TotpSecrets
    /\ attendance = <<>>
    /\ aliases = <<>>
    /\ pc = [p \in Procs |-> "idle"]
    /\ call = [p \in Procs |-> NoCall]
    /\ result = [p \in Procs |-> NoResult]
    /\ calls = 0
    /\ totp = NoTotp
    /\ NewBot

NextTotp ==
    \/ \E t \in TotpInstants : Derive(t)
    \/ \E pre \in Blanks, post \in Blanks : Decorate(pre, post)
    \/ Split
    \/ \E text \in OtherTokens : TypeOther(text)
    \/ Check
    \/ Remaining

SpecTotp == InitTotp /\ [][NextTotp]_vars


\* ------------------------------------------------------ the polling loop
MaxUpdates == 3

\* strings.Fields: the maximal runs of characters that are not white space
RECURSIVE Fields(_)
Fields(s) ==
    LET t == TrimLeft(s)
    IN  IF t = <<>> THEN <<>>
        ELSE LET n == IF \E i \in 1..Len(t) : t[i] \in SpaceChars
                         THEN (CHOOSE i \in 1..Len(t) :
                                  /\ t[i] \in SpaceChars
                                  /\ \A j \in 1..(i - 1) : t[j] \notin SpaceChars) - 1
                      ELSE Len(t)
             IN  <<SubSeq(t, 1, n)>> \o Fields(SubSeq(t, n + 1, Len(t)))

\* \d{4}-\d{2}-\d{2}
IsDateShape(w) ==
    /\ Len(w) = 10
    /\ \A i \in 1..10 : IF i \in {5, 8} THEN w[i] = "-" ELSE IsDigit(w[i])

\* dateRangeRegex.FindStringSubmatch: the whole match, the password and the
\* two dates, or no match
FindStringSubmatch(text) ==
    LET parts == Fields(text)
    IN  IF /\ text # <<>>
           /\ text[1] \notin SpaceChars
           /\ text[Len(text)] \notin SpaceChars
           /\ Len(parts) = 3
           /\ IsDateShape(parts[2])
           /\ IsDateShape(parts[3])
        THEN <<text>> \o parts
        ELSE <<>>

\* time.Parse("2006-01-02", w) of a text of the date shape: err is set for a
\* month or a day out of range
ParseDate(w) ==
    LET digit(i) == IndexOf(DigitChars, w[i]) - 1
        y == 1000 * digit(1) + 100 * digit(2) + 10 * digit(3) + digit(4)
        m == 10 * digit(6) + digit(7)
        d == 10 * digit(9) + digit(10)
        leap == (y % 4 = 0 /\ y % 100 # 0) \/ y % 400 = 0
        daysIn == IF m = 2 THEN (IF leap THEN 29 ELSE 28)
                  ELSE IF m \in {4, 6, 9, 11} THEN 30 ELSE 31
    IN  [err |-> ~(m \in 1..12 /\ d >= 1 /\ d <= daysIn),
         year |-> y, month |-> m, day |-> d]

\* the day number of a date, as DateKey counts the days: the store compares
\* the date texts, which order as these numbers do
DayNumber(date) ==
    LET y == date.year
        leap == (y % 4 = 0 /\ y % 100 # 0) \/ y % 400 = 0
        leapsBefore(x) == ((x - 1) \div 4) - ((x - 1) \div 100) + ((x - 1) \div 400)
        daysBeforeMonth == <<0, 31, 59, 90, 120, 151, 181, 212, 243, 273, 304, 334>>
    IN  365 * (y - 1970) + leapsBefore(y) - leapsBefore(1970)
        + daysBeforeMonth[date.month] + (IF leap /\ date.month > 2 THEN 1 ELSE 0)
        + date.day - 1

\* config.AdminPassword
AdminPassword == <<"a", "d", "m", "i", "n", "1", "2", "3">>

\* the texts users send
FullReportText == <<"/", "f", "u", "l", "l", "r", "e", "p", "o", "r", "t">>
ReportText == <<"/", "r", "e", "p", "o", "r", "t">>
\* an accepted input with white space around and between its parts, a wrong
\* password, a start after the end, a day the calendar does not have, and a
\* greeting
Texts == {FullReportText, ReportText, ReplayCode,
          <<" ", "a", "d", "m", "i", "n", "1", "2", "3", " ", " ", "1", "9", "7", "0", "-", "0", "1", "-", "0", "2", " ", "1", "9", "7", "0", "-", "0", "1", "-", "0", "3", "\n">>,
          <<"a", "d", "m", "i", "n", "1", "2", "4", " ", "1", "9", "7", "0", "-", "0", "1", "-", "0", "2", " ", "1", "9", "7", "0", "-", "0", "1", "-", "0", "3">>,
          <<"a", "d", "m", "i", "n", "1", "2", "3", " ", "1", "9", "7", "0", "-", "0", "1", "-", "0", "3", " ", "1", "9", "7", "0", "-", "0", "1", "-", "0", "2">>,
          <<"a", "d", "m", "i", "n", "1", "2", "3", " ", "1", "9", "7", "0", "-", "0", "2", "-", "2", "8", " ", "1", "9", "7", "0", "-", "0", "2", "-", "2", "9">>,
          <<"h", "a", "l", "o">>}

\* a user sends a message: Telegram numbers the update and holds it
Send(u, text) ==
    /\ Len(sent) < MaxUpdates
    /\ sent' = Append(sent, [UpdateID |-> Len(sent) + 1, Message |-> TRUE,
                             From |-> u, Text |-> text])
    /\ UNCHANGED <<clock, secret, attendance, aliases, pc, call, result, calls, totp,
                   sessions, lastUpdateID, updates, handled, loop>>

\* an update that carries no message
SendOther ==
    /\ Len(sent) < MaxUpdates
    /\ sent' = Append(sent, [NoUpdate EXCEPT !.UpdateID = Len(sent) + 1])
    /\ UNCHANGED <<clock, secret, attendance, aliases, pc, call, result, calls, totp,
                   sessions, lastUpdateID, updates, handled, loop>>

\* what TelegramAPI.GetUpdates may return without an error: updates Telegram
\* holds from the offset on, in the order of their ids, none for a long poll
\* that timed out
GetUpdates(offset) ==
    LET from == IF offset > 0 THEN offset ELSE 1
    IN  {SubSeq(sent, from, k) : k \in (from - 1)..Len(sent)}

\* a poll that asks for the last update again
PollOffsetLast == lastUpdateID

\* the offset Bot.Start asks for
PollOffset == lastUpdateID + 1

\* updates, err := b.api.GetUpdates(b.lastUpdateID+1, 60) with a nil error
Poll ==
    /\ loop.at = "getUpdates"
    /\ \E got \in GetUpdates(PollOffset) :
          /\ updates' = got
          /\ loop' = IF got = <<>> THEN AtGetUpdates ELSE [AtGetUpdates EXCEPT !.at = "range"]
    /\ UNCHANGED <<clock, secret, attendance, aliases, pc, call, result, calls, totp,
                   sessions, lastUpdateID, sent, handled>>

\* GetUpdates returns an error: logged, then time.Sleep
PollFails ==
    /\ loop.at = "getUpdates"
    /\ loop' = [AtGetUpdates EXCEPT !.at = "sleep"]
    /\ UNCHANGED <<clock, secret, attendance, aliases, pc, call, result, calls, totp,
                   sessions, lastUpdateID, sent, updates, handled>>

\* continue: the loop polls again
Wake ==
    /\ loop.at = "sleep"
    /\ loop' = AtGetUpdates
    /\ UNCHANGED <<clock, secret, attendance, aliases, pc, call, result, calls, totp,
                   sessions, lastUpdateID, sent, updates, handled>>

\* a handleFullReportInput that leaves the session as it is
KeepSession(table, userID) == table

\* delete(b.sessions, msg.From.ID)
ClearSession(table, userID) == table \ {userID}

\* a check that takes any password
PasswordAny(password) == TRUE

\* password != b.config.AdminPassword, negated
PasswordMatches(password) == password = AdminPassword

\* what is noted of a call of handleUpdate
Handled(update, handler, err) ==
    [UpdateID |-> update.UpdateID, handler |-> handler, err |-> err]

\* the body of "for _, update := range updates": lastUpdateID is set, then
\* handleUpdate runs up to its return or up to its call of the service
\* (sendOK: whether the message the handler sends goes out)
Handle(sendOK) ==
    /\ loop.at = "range"
    /\ updates # <<>>
    /\ LET update == Head(updates)
           rest == [AtGetUpdates EXCEPT
                      !.at = IF Tail(updates) = <<>> THEN "getUpdates" ELSE "range"]
           enter(handler) == [at |-> handler, update |-> update, calls |-> calls,
                              start |-> 0, end |-> 0]
           text == update.Text
       IN  /\ lastUpdateID' = update.UpdateID
           /\ updates' = Tail(updates)
           /\ IF ~update.Message
                 THEN /\ handled' = Append(handled, Handled(update, "none", FALSE))
                      /\ loop' = rest
                      /\ UNCHANGED sessions
              ELSE IF text # <<>> /\ text[1] = "/"
                 THEN LET command == Fields(text)[1]
                      IN  IF command = FullReportText
                             THEN /\ sessions' = sessions \cup {update.From}
                                  /\ handled' = Append(handled,
                                        Handled(update, "handleFullReport", ~sendOK))
                                  /\ loop' = rest
                          ELSE IF command = ReportText
                             THEN /\ loop' = enter("handleReport")
                                  /\ UNCHANGED <<sessions, handled>>
                          ELSE /\ handled' = Append(handled,
                                     Handled(update, "handleCommand", ~sendOK))
                               /\ loop' = rest
                               /\ UNCHANGED sessions
              ELSE IF ValidateOTP(text)
                 THEN /\ loop' = enter("handleOTP")
                      /\ UNCHANGED <<sessions, handled>>
              ELSE IF update.From \notin sessions
                 THEN /\ handled' = Append(handled,
                            Handled(update, "handleTextMessage", ~sendOK))
                      /\ loop' = rest
                      /\ UNCHANGED sessions
              ELSE LET matches == FindStringSubmatch(TrimSpace(text))
                       start == ParseDate(matches[3])
                       end == ParseDate(matches[4])
                       refused == \/ Len(matches) # 4
                                  \/ ~PasswordMatches(matches[2])
                                  \/ start.err
                                  \/ end.err
                                  \/ DayNumber(start) > DayNumber(end)
                   IN  /\ sessions' = ClearSession(sessions, update.From)
                       /\ IF refused \/ ~sendOK
                             THEN /\ handled' = Append(handled,
                                        Handled(update, "handleFullReportInput", ~sendOK))
                                  /\ loop' = rest
                          ELSE /\ loop' = [enter("generateAndSendCSVReport") EXCEPT
                                             !.start = DayNumber(start),
                                             !.end = DayNumber(end)]
                               /\ UNCHANGED handled
    /\ UNCHANGED <<clock, secret, attendance, aliases, pc, call, result, calls, totp, sent>>

\* the call of the service the handler makes: made once, for the update the
\* handler works on
ServiceCall ==
    /\ loop.calls = calls
    /\ \/ /\ loop.at = "handleOTP"
          /\ Begin(Poller, loop.update.From, loop.update.Text)
       \/ /\ loop.at = "handleReport"
          /\ GenerateAttendanceReport(Poller, FALSE, {})
       \/ /\ loop.at = "generateAndSendCSVReport"
          /\ RangeExport(Poller, loop.start, loop.end, FALSE)

\* MarkAttendance goes on after its TOTP check
ServiceStep ==
    /\ loop.at = "handleOTP"
    /\ loop.calls < calls
    /\ \/ ReadClock(Poller)
       \/ LoadStatus(Poller)
       \/ Insert(Poller)

\* the service has answered: the handler sends its message and returns to
\* the loop, which logs an error of the handler and goes on
Return(sendOK) ==
    /\ loop.at \in {"handleOTP", "handleReport", "generateAndSendCSVReport"}
    /\ loop.calls < calls
    /\ pc[Poller] = "done"
    /\ handled' = Append(handled, Handled(loop.update, loop.at, ~sendOK))
    /\ loop' = [AtGetUpdates EXCEPT !.at = IF updates = <<>> THEN "getUpdates" ELSE "range"]
    /\ UNCHANGED <<clock, secret, attendance, aliases, pc, call, result, calls, totp,
                   sessions, lastUpdateID, sent, updates>>

\* the loop starts over an empty store, at the first instant
NextBot ==
    \/ \E u \in Users, text \in Texts : Send(u, text)
    \/ SendOther
    \/ Poll
    \/ PollFails
    \/ Wake
    \/ \E sendOK \in BOOLEAN : Handle(sendOK)
    \/ ServiceCall
    \/ ServiceStep
    \/ \E sendOK \in BOOLEAN : Return(sendOK)

SpecBot == InitReplay /\ [][NextBot]_vars

\* ===================================================== the claims
\* the secrets that do not decode as base32, and those ValidateSecret accepts
UndecodableSecrets == {sec \in TotpSecrets : Base32Decode(ToUpper(sec)).err}
ValidSecrets == {sec \in TotpSecrets : ValidateSecret(sec)}
\* the kinds of event stored for a user and a date
KindsOf(table, u, d) ==
    {table[i].Type : i \in {j \in 1..Len(table) : table[j].UserID = u /\ table[j].Date = d}}
RowsOf(table, u, d) == SelectSeq(table, LAMBDA r : r.UserID = u /\ r.Date = d)
Complete(table, u, d) == KindsOf(table, u, d) = {CheckIn, CheckOut}
DateKeys == {DateKey(t) : t \in Instants}
ExactlySixDigits(s) ==
    /\ Len(s) = 6
    /\ \A i \in 1..Len(s) : s[i] \in {"0", "1", "2", "3", "4", "5", "6", "7", "8", "9"}
ToleratedCodes(sec, now) ==
    {TOTPForTime(sec, ((now \div 30) + i) * 30) : i \in {-1, 0, 1}}
\* the candidates of each secret and instant that are not exactly six digits,
\* that are not so once trimmed, and that are six digits but the code of none
\* of the three tolerated steps
NotSixDigits ==
    [sec \in Secrets |-> [t \in Instants |->
        {c \in Candidates(sec, t) : ~ExactlySixDigits(c)}]]
NotSixDigitsTrimmed ==
    [sec \in Secrets |-> [t \in Instants |->
        {c \in Candidates(sec, t) : ~ExactlySixDigits(TrimSpace(c))}]]
Untolerated ==
    [sec \in Secrets |-> [t \in Instants |->
        {c \in Candidates(sec, t) : ExactlySixDigits(c) /\ c \notin ToleratedCodes(sec, t)}]]

\* C1: in every reachable state, under any interleaving of MarkAttendance
\* calls, the table holds at most one event per (identity, date, kind).
C1_AtMostOnePerTriple ==
    \A i, j \in 1..Len(attendance) :
        (/\ attendance[i].UserID = attendance[j].UserID
         /\ attendance[i].Date = attendance[j].Date
         /\ attendance[i].Type = attendance[j].Type) => i = j

\* C1 witness: two callers raced for one (identity, date, kind) and the
\* second INSERT was refused.
C1_Witness ==
    \E p, q \in Procs :
        /\ p # q
        /\ result[p].kind = "SaveFailed"
        /\ result[q].Success
        /\ result[q].user = result[p].user
        /\ result[q].date = result[p].date

\* C2: with one request at a time, a call that passed verification for a
\* user and date with no events records the arrival, with the arrival only
\* it records the departure, and with both it returns AlreadyComplete and
\* writes nothing; a departure never stands without its arrival.
C2_ArrivalDepartureComplete ==
    [][\A p \in Procs :
          (pc[p] \in {"status", "insert"} /\ pc'[p] = "done") =>
             LET u == call[p].user
                 d == call[p].date
                 before == KindsOf(attendance, u, d)
                 r == result'[p]
             IN  /\ before # {CheckOut}
                 /\ before = {} =>
                       /\ r.Success /\ ~r.err
                       /\ r.Record.Type = CheckIn
                       /\ r.Record.UserID = u /\ r.Record.Date = d
                       /\ attendance' = Append(attendance, r.Record)
                 /\ before = {CheckIn} =>
                       /\ r.Success /\ ~r.err
                       /\ r.Record.Type = CheckOut
                       /\ r.Record.UserID = u /\ r.Record.Date = d
                       /\ attendance' = Append(attendance, r.Record)
                 /\ before = {CheckIn, CheckOut} =>
                       /\ r.kind = "AlreadyComplete"
                       /\ ~r.Success /\ ~r.err /\ r.Record = NoRecord
                       /\ attendance' = attendance]_vars

\* C2 witness: the third call of a day has returned AlreadyComplete.
C2_Witness ==
    \E p \in Procs :
        /\ pc[p] = "done"
        /\ result[p].kind = "AlreadyComplete"
        /\ Len(RowsOf(attendance, result[p].user, result[p].date)) = 2
        /\ calls = 3

\* the valid calls for the racing user and date that have returned
RaceCalls ==
    {p \in Procs : /\ pc[p] = "done"
                   /\ result[p].user = RaceUser
                   /\ result[p].date = RaceDate
                   /\ result[p].kind \in {"Recorded", "AlreadyComplete", "SaveFailed"}}
RaceOver == \A p \in Procs : pc[p] \in {"idle", "done"}

\* C3: the user has arrived and not departed; when two valid calls for that
\* user and date have been made, in any interleaving, exactly one new event
\* (the departure) is stored, one call succeeded and the other did not; never
\* are two events of one kind stored.
C3_LastSlotRace ==
    LET today == RowsOf(attendance, RaceUser, RaceDate)
        won == {p \in RaceCalls : result[p].Success}
    IN  /\ \A i, j \in 1..Len(today) : today[i].Type = today[j].Type => i = j
        /\ (RaceOver /\ Cardinality(RaceCalls) = 2) =>
              /\ Cardinality(won) = 1
              /\ Len(today) = 2
              /\ today[1] = ArrivalRow
              /\ today[2].Type = CheckOut
              /\ \A p \in won : result[p].Record = today[2]
              /\ \A p \in RaceCalls \ won : result[p].Record = NoRecord

\* C3 witness: both calls read the status before either wrote, and the
\* second INSERT was refused.
C3_Witness ==
    /\ RaceOver
    /\ Cardinality(RaceCalls) = 2
    /\ \E p \in RaceCalls : result[p].kind = "SaveFailed"

\* C4: an INSERT refused by the uniqueness constraint is returned as an
\* unsuccessful AlreadyComplete result with no error.
C4_RefusedInsertIsAlreadyComplete ==
    [][\A p \in Procs :
          (/\ pc[p] = "insert"
           /\ pc'[p] = "done"
           /\ ViolatesUnique(attendance, NewRecord(call[p]))) =>
             /\ result'[p].kind = "AlreadyComplete"
             /\ ~result'[p].Success
             /\ ~result'[p].err]_vars

\* C5: once the arrival and the departure of (identity, date) are stored, no
\* step changes the events of that pair, and every call for the pair that
\* passed verification and loads the status returns AlreadyComplete.
C5_DepartedIsAbsorbing ==
    [][/\ \A u \in Users, d \in DateKeys :
             Complete(attendance, u, d) =>
                RowsOf(attendance', u, d) = RowsOf(attendance, u, d)
       /\ \A p \in Procs :
             (/\ pc[p] = "status"
              /\ pc'[p] # "status"
              /\ Complete(attendance, call[p].user, call[p].date)) =>
                /\ pc'[p] = "done"
                /\ result'[p].kind = "AlreadyComplete"
                /\ ~result'[p].Success /\ ~result'[p].err
                /\ attendance' = attendance]_vars

\* C5 witness: a call made after the day was complete has returned.
C5_Witness ==
    \E p \in Procs :
        /\ result[p].kind = "AlreadyComplete"
        /\ Complete(attendance, result[p].user, result[p].date)
        /\ result[p].date = DateKey(clock)

\* C6: whatever the user has on other dates, a verified call that finds no
\* event of the user on its date decides for the arrival, and its INSERT,
\* when still none is stored, records the arrival under that date.
C6_NewDateStartsWithArrival ==
    [][\A p \in Procs :
          LET u == call[p].user
              d == call[p].date
          IN  /\ (/\ pc[p] = "status"
                  /\ pc'[p] # "status"
                  /\ KindsOf(attendance, u, d) = {}) =>
                    /\ pc'[p] = "insert"
                    /\ call'[p].type = CheckIn
              /\ (/\ pc[p] = "insert"
                  /\ pc'[p] = "done"
                  /\ KindsOf(attendance, u, d) = {}) =>
                    /\ result'[p].Success
                    /\ result'[p].Record.Type = CheckIn
                    /\ result'[p].Record.Date = d
                    /\ attendance' = Append(attendance, result'[p].Record)]_vars

\* C6 witness: a user with the arrival only on one date has the arrival of
\* a later date stored.
C6_Witness ==
    \E i, j \in 1..Len(attendance) :
        /\ attendance[i].UserID = attendance[j].UserID
        /\ attendance[i].Date < attendance[j].Date
        /\ attendance[j].Type = CheckIn
        /\ KindsOf(attendance, attendance[i].UserID, attendance[i].Date) = {CheckIn}

\* what a call returns for a candidate of the wrong format
IsInvalidFormat(r) ==
    /\ r.kind = "InvalidFormat"
    /\ ~r.Success /\ ~r.err /\ r.Record = NoRecord

\* C7 as stated: a candidate that is not exactly six digits returns
\* InvalidFormat and the call ends without touching the store.
C7_NotSixDigitsIsInvalidFormat ==
    [][\A otp \in NotSixDigits[secret][clock] :
          \A p \in Procs, u \in Users :
             Begin(p, u, otp) =>
                /\ IsInvalidFormat(result'[p])
                /\ pc'[p] = "done"
                /\ attendance' = attendance]_vars

\* C7 as amended: a candidate that is not exactly six digits once the white
\* space around it is trimmed returns InvalidFormat, with a nil error and no
\* record, and the call ends without reading or writing the store.
C7_NotSixDigitsAfterTrimIsInvalidFormat ==
    [][\A otp \in NotSixDigitsTrimmed[secret][clock] :
          \A p \in Procs, u \in Users :
             Begin(p, u, otp) =>
                /\ IsInvalidFormat(result'[p])
                /\ pc'[p] = "done"
                /\ attendance' = attendance]_vars

\* C7 witness: InvalidFormat returned to a user who has arrived today.
C7_Witness ==
    \E p \in Procs :
        /\ result[p].kind = "InvalidFormat"
        /\ KindsOf(attendance, result[p].user, DateKey(clock)) = {CheckIn}

\* C8: a six-digit candidate that is the code of none of the three tolerated
\* steps returns InvalidOrExpired with a nil error, and the call ends before
\* the status is loaded, the store unchanged.
C8_UnverifiedIsInvalidOrExpired ==
    [][\A otp \in Untolerated[secret][clock] :
          \A p \in Procs, u \in Users :
             Begin(p, u, otp) =>
                /\ result'[p].kind = "InvalidOrExpired"
                /\ ~result'[p].Success /\ ~result'[p].err
                /\ result'[p].Record = NoRecord
                /\ pc'[p] = "done"
                /\ attendance' = attendance]_vars

\* C8 witness: InvalidOrExpired returned to a user who has departed today.
C8_Witness ==
    \E p \in Procs :
        /\ result[p].kind = "InvalidOrExpired"
        /\ Complete(attendance, result[p].user, DateKey(clock))

\* the step is one in which a MarkAttendance call of p returns: from the
\* status or the INSERT, or from the format or TOTP check of a new call
Returns(p) ==
    /\ pc'[p] = "done"
    /\ \/ pc[p] \in {"status", "insert"}
       \/ /\ calls' = calls + 1
          /\ result'[p].kind \in {"InvalidFormat", "InvalidOrExpired"}
          /\ \A q \in Procs \ {p} : result'[q] = result[q] /\ pc'[q] = pc[q]

\* C9: a call returns success exactly when it inserted one event, the record
\* of the result is that stored event, an unsuccessful result carries no
\* record and inserted nothing, and no other step inserts.
C9_SuccessIffInserted ==
    [][/\ \A p \in Procs :
             Returns(p) =>
                LET r == result'[p]
                IN  /\ r.Success <=> Len(attendance') = Len(attendance) + 1
                    /\ r.Success =>
                          /\ attendance' = Append(attendance, r.Record)
                          /\ r.Record.UserID = r.user
                          /\ r.Record.Date = r.date
                          /\ r.Record.Type \in {CheckIn, CheckOut}
                    /\ ~r.Success => (r.Record = NoRecord /\ attendance' = attendance)
       /\ (\A p \in Procs : pc'[p] = pc[p] \/ pc'[p] # "done") => attendance' = attendance
       /\ \A p \in Procs :
             result'[p].Success =>
                /\ result'[p].Record.ID \in 1..Len(attendance')
                /\ attendance'[result'[p].Record.ID] = result'[p].Record]_vars

\* C9 witness: one call has succeeded and another was refused.
C9_Witness ==
    \E p, q \in Procs :
        /\ result[p].Success
        /\ attendance[Len(attendance)] = result[p].Record
        /\ result[q].kind = "SaveFailed"

\* C10: no call in which a store access failed (a query, a write, or the
\* alias lookup made to render a name) returns a nil error.
C10_NoStoreFailureSwallowed ==
    \A p \in Procs : result[p].faulted # {} => result[p].err

\* ------------------------------------------------- dates and the store
\* the calendar date of an instant in Asia/Jakarta (UTC+7)
JakartaDate(t) == (t + 7 * 3600) \div 86400
\* the candidates that are not the code of a tolerated step once the white
\* space around them is trimmed and their blanks removed
Unverified ==
    [sec \in Secrets |-> [t \in Instants |->
        {c \in Candidates(sec, t) :
            \/ ~ExactlySixDigits(TrimSpace(c))
            \/ SelectSeq(c, LAMBDA x : x # " ") \notin ToleratedCodes(sec, t)}]]

\* C17: every stored event's date is the Asia/Jakarta calendar date of its
\* own timestamp, and the date a call loads the status for is the date it
\* writes its event under, whatever the clock does in between.
C17_DateIsJakartaDateOfTimestamp ==
    [][/\ \A i \in 1..Len(attendance') :
             attendance'[i].Date = JakartaDate(attendance'[i].Timestamp)
       /\ \A p \in Procs :
             /\ (pc[p] = "status" /\ pc'[p] = "insert") =>
                   /\ call'[p].date = call[p].date
                   /\ call'[p].now = call[p].now
                   /\ call[p].date = JakartaDate(call[p].now)
                   /\ call'[p].type =
                         IF KindsOf(attendance, call[p].user, call[p].date) = {}
                         THEN CheckIn ELSE CheckOut
             /\ (pc[p] = "insert" /\ pc'[p] = "insert") => call'[p] = call[p]
             /\ (pc[p] = "insert" /\ result'[p].Success) =>
                   /\ result'[p].Record.Date = call[p].date
                   /\ result'[p].Record.Timestamp = call[p].now]_vars

\* C17 witness: an event read off the clock ten seconds before midnight is
\* stored under that day although it was written after midnight.
C17_Witness ==
    \E p \in Procs :
        /\ result[p].Success
        /\ result[p].Record = attendance[Len(attendance)]
        /\ (result[p].Record.Timestamp + 7 * 3600) % 86400 = 86390
        /\ JakartaDate(clock) = result[p].Record.Date + 1

\* C18: the attendance table is append-only under every operation: a step
\* leaves the stored events as they are, or appends one event for a
\* MarkAttendance call that is at its INSERT; no call reaches the store
\* with a candidate that did not verify.
C18_AppendOnly ==
    [][/\ Len(attendance') \in {Len(attendance), Len(attendance) + 1}
       /\ \A i \in 1..Len(attendance) : attendance'[i] = attendance[i]
       /\ Len(attendance') = Len(attendance) + 1 =>
             \E p \in Procs :
                /\ pc[p] = "insert" /\ pc'[p] = "done"
                /\ result'[p].Success
                /\ attendance'[Len(attendance')].UserID = call[p].user
       /\ \A p \in Procs :
             (pc[p] \in {"idle", "done"} /\ pc'[p] = "clock") =>
                \A otp \in Unverified[secret][clock], u \in Users : ~Begin(p, u, otp)]_vars

\* C18 witness: an event is stored, an alias is set for its user, and a
\* report, a history or an export has been made.
C18_Witness ==
    /\ Len(attendance) >= 1
    /\ GetUserAlias(aliases, attendance[1].UserID) # NoAlias
    /\ \E p \in Procs : result[p].kind \in {"Report", "History", "Range"}

\* C19: the range export returns exactly the stored events whose date lies
\* in [startDate, endDate], each once (also for users with an alias),
\* ordered by date and then by timestamp, ascending.
C19_RangeExportExact ==
    [][\A p \in Procs : \A d1, d2 \in Days \cup {MaxDay + 1} :
          (result'[p].kind = "Range" /\ RangeExport(p, d1, d2, FALSE)) =>
             LET rows == result'[p].out.rows
                 inWindow == {i \in 1..Len(attendance) :
                                d1 <= attendance[i].Date /\ attendance[i].Date <= d2}
             IN  /\ \A k \in 1..Len(rows) : \E i \in inWindow : rows[k] = attendance[i]
                 /\ \A i \in inWindow :
                       Cardinality({k \in 1..Len(rows) : rows[k] = attendance[i]}) = 1
                 /\ \A k \in 1..(Len(rows) - 1) :
                       \/ rows[k].Date < rows[k + 1].Date
                       \/ /\ rows[k].Date = rows[k + 1].Date
                          /\ rows[k].Timestamp <= rows[k + 1].Timestamp]_vars

\* C19 witness: an export of events of two dates, the first of a user who
\* has an alias.
C19_Witness ==
    \E p \in Procs :
        LET rows == result[p].out.rows
        IN  /\ result[p].kind = "Range"
            /\ Len(rows) = 2
            /\ rows[1].Date < rows[2].Date
            /\ GetUserAlias(aliases, rows[1].UserID) # NoAlias

\* C20: the history of a user and a window of days is exactly that user's
\* events whose date is on or after the Asia/Jakarta date of now minus the
\* window, by date descending and by timestamp ascending within a date.
C20_HistoryFromJakartaToday ==
    [][\A p \in Procs : \A u \in Users, days \in WindowDays :
          (result'[p].kind = "History" /\ History(p, u, days, FALSE)) =>
             LET rows == result'[p].out.rows
                 wanted == {i \in 1..Len(attendance) :
                              /\ attendance[i].UserID = u
                              /\ attendance[i].Date >= JakartaDate(clock) - days}
             IN  /\ \A k \in 1..Len(rows) : \E i \in wanted : rows[k] = attendance[i]
                 /\ \A i \in wanted :
                       Cardinality({k \in 1..Len(rows) : rows[k] = attendance[i]}) = 1
                 /\ \A k \in 1..(Len(rows) - 1) :
                       \/ rows[k].Date > rows[k + 1].Date
                       \/ /\ rows[k].Date = rows[k + 1].Date
                          /\ rows[k].Timestamp <= rows[k + 1].Timestamp]_vars

\* ------------------------------------------------------------ TOTP claims
\* the typed text is the code as Generate returned it, and it was checked
BareChecked == totp.derivedAt # -1 /\ totp.checkedAt # -1 /\ totp.token = totp.bare
StepOf(t) == t \div 30
\* every kind of white space removed from a text
StripWhitespace(s) == SelectSeq(s, LAMBDA c : c \notin {" ", "\t", "\n", "\r"})

\* C11: for a valid secret, Verify evaluated at t accepts the code Generate
\* returned for t.
C11_VerifyAcceptsDerived ==
    (secret \in ValidSecrets /\ BareChecked /\ totp.checkedAt = totp.derivedAt)
        => totp.accepted

\* C11 witness: a code derived in the last second of a step was checked at
\* that second under the lower-case secret.
C11_Witness ==
    /\ secret = LowerSecret
    /\ BareChecked
    /\ totp.checkedAt = totp.derivedAt
    /\ totp.derivedAt % 30 = 29
    /\ totp.accepted

\* C12: for a valid secret, Verify accepts a code derived at t exactly when
\* the step of the checking instant is the step of t or next to it: it
\* accepts at t+29s and t-29s and rejects at t+61s.
C12_AcceptsAdjacentStepsOnly ==
    (secret \in ValidSecrets /\ BareChecked) =>
        LET d == StepOf(totp.checkedAt) - StepOf(totp.derivedAt)
            dt == totp.checkedAt - totp.derivedAt
        IN  /\ totp.accepted <=> d \in {-1, 0, 1}
            /\ dt \in {29, -29} => totp.accepted
            /\ dt = 61 => ~totp.accepted

\* C12 witness: a code was rejected 61 seconds after it was derived, and the
\* checking instant is two steps (not three) after the deriving one.
C12_Witness ==
    /\ secret \in ValidSecrets
    /\ BareChecked
    /\ totp.checkedAt - totp.derivedAt = 61
    /\ StepOf(totp.checkedAt) - StepOf(totp.derivedAt) = 2
    /\ ~totp.accepted

\* C13 as stated: for all secrets and instants the code Generate returns is
\* exactly six ASCII digits.
C13_DerivedIsSixDigits ==
    totp.derivedAt # -1 => ExactlySixDigits(totp.bare)

\* C13 as amended: for every secret that decodes as base32 and every instant
\* the code is exactly six ASCII digits, leading zeros kept; for a secret
\* that does not decode Generate returns the empty string.
C13_DerivedIsSixDigitsOrEmpty ==
    totp.derivedAt # -1 =>
        IF secret \in UndecodableSecrets THEN totp.bare = <<>>
        ELSE ExactlySixDigits(totp.bare)

\* C13 witness: a derived code that starts with a zero.
C13_Witness ==
    /\ totp.derivedAt # -1
    /\ ExactlySixDigits(totp.bare)
    /\ totp.bare[1] = "0"

\* C14: with a secret that does not decode as base32, Generate returns the
\* empty code, Verify returns false for every candidate (the empty text
\* included) at every instant, no call passes verification and no event is
\* ever stored.
C14_MalformedSecretFailsClosed ==
    secret \in UndecodableSecrets =>
        /\ Generate(secret, clock) = <<>>
        /\ \A otp \in Candidates(secret, clock) \cup {<<>>} : ~Verify(secret, otp, clock)
        /\ attendance = <<>>
        /\ \A p \in Procs :
              /\ pc[p] \in {"idle", "done"}
              /\ ~result[p].Success /\ ~result[p].err
              /\ result[p].kind \in {"none", "InvalidFormat", "InvalidOrExpired"}

\* C14 witness: under the malformed secret a six-digit code was answered
\* InvalidOrExpired, after the clock moved on.
C14_Witness ==
    /\ secret \in UndecodableSecrets
    /\ clock # FirstInstant
    /\ \E p \in Procs : result[p].kind = "InvalidOrExpired"

\* C15: Verify strips white space (blanks, tabs, line breaks) before it
\* compares: a code with white space around it is accepted exactly as the
\* bare code is, a candidate that is not six digits once stripped is
\* rejected, and ValidateOTP finds well-formed exactly the candidates that
\* are six digits once stripped, as Verify does.
C15_VerifyStripsWhitespace ==
    totp.checkedAt # -1 =>
        /\ StripWhitespace(totp.token) = totp.bare =>
               (totp.accepted <=> Verify(secret, totp.bare, totp.checkedAt))
        /\ ~ExactlySixDigits(StripWhitespace(totp.token)) => ~totp.accepted
        /\ totp.wellFormed <=> ExactlySixDigits(StripWhitespace(totp.token))

\* C16: GetTimeRemaining(now) is 30 - (now mod 30), a number of 1..30: 30 at
\* a step boundary and never 0.
C16_TimeRemainingRange ==
    totp.remainingAt # -1 =>
        /\ totp.remaining = 30 - (totp.remainingAt % 30)
        /\ totp.remaining \in 1..30
        /\ totp.remainingAt % 30 = 0 => totp.remaining = 30

\* C16 witness: the time remaining was asked at a step boundary.
C16_Witness ==
    /\ totp.remainingAt # -1
    /\ totp.remainingAt % 30 = 0
    /\ totp.remaining = 30

\* ------------------------------------------------------- display claims
\* C21: the history display lists the days recency-first: its day entries
\* run from the newest date to the oldest and are numbered 1, 2, ... in that
\* order, so the newest day is number 1.
C21_HistoryNewestFirst ==
    \A p \in Procs :
        result[p].kind = "History" =>
            LET days == result[p].out.days
            IN  /\ \A k \in 1..Len(days) : days[k].index = k
                /\ \A k \in 1..(Len(days) - 1) : days[k].date > days[k + 1].date

\* C22: no user has an alias until SetUserAlias is called for it; a
\* SetUserAlias call that returns without error leaves GetUserAlias of its
\* user returning exactly the first and the last name of that call (no last
\* name when the call had none), and the alias of every other user as it
\* was; every other step leaves every user's alias as it was. So GetUserAlias
\* returns the values of the most recent call that returned without error.
C22_AliasReadsLastWrite ==
    /\ \A u \in Users : GetUserAlias(aliases, u) = NoAlias
    /\ [][\A p \in Procs :
            IF pc[p] = "aliasWrite" /\ result'[p].kind = "AliasSet"
            THEN /\ GetUserAlias(aliases', call[p].user) =
                       [UserID |-> call[p].user, FirstName |-> call[p].first,
                        LastName |-> call[p].last]
                 /\ \A u \in Users \ {call[p].user} :
                       GetUserAlias(aliases', u) = GetUserAlias(aliases, u)
            ELSE (\A q \in Procs : ~(pc[q] = "aliasWrite" /\ result'[q].kind = "AliasSet"))
                    => \A u \in Users : GetUserAlias(aliases', u) = GetUserAlias(aliases, u)]_vars

\* C22 witness: a SetUserAlias call without a last name is at its UPDATE for
\* a user whose alias, set by an earlier call, has a last name.
C22_Witness ==
    \E p \in Procs :
        /\ pc[p] = "aliasWrite"
        /\ call[p].exists
        /\ call[p].last = Nil
        /\ GetUserAlias(aliases, call[p].user).LastName = "Besar"
        /\ GetUserAlias(aliases, call[p].user).FirstName # call[p].first

\* C23: under concurrent callers there is at most one alias per user, and
\* every SetUserAlias call returns without error while the store's accesses
\* succeed (so two concurrent calls for a user without an alias both do).
C23_ConcurrentSetAliasUpserts ==
    /\ \A u \in Users :
          Cardinality({i \in 1..Len(aliases) : aliases[i].UserID = u}) <= 1
    /\ \A p \in Procs :
          result[p].kind \in {"AliasSet", "AliasFailed"} => ~result[p].err

\* the display name the alias table and an event call for: the alias of the
\* event's user when one is stored, the event's own name otherwise
NameParts(first, last) == IF last # Nil /\ last # "" THEN <<first, last>> ELSE <<first>>
DisplayNameOf(table, event) ==
    LET stored == {i \in 1..Len(table) : table[i].UserID = event.UserID}
    IN  IF stored # {}
        THEN LET a == table[CHOOSE i \in stored : TRUE]
             IN  NameParts(a.FirstName, a.LastName)
        ELSE NameParts(event.FirstName, event.LastName)
\* the events stored for a user under a date
EventsOf(u, d) ==
    {attendance[i] : i \in {j \in 1..Len(attendance) :
                               attendance[j].UserID = u /\ attendance[j].Date = d}}

\* C24: every name the daily report renders is the stored alias of the
\* entry's user when one exists (first and last name when the alias has a
\* non-empty last name, the first name alone otherwise) and the name stored
\* on the user's event otherwise, whether or not the alias lookup succeeds;
\* no step of SetUserAlias changes a stored event.
C24_DisplayNameIsAliasElseEventName ==
    [][\A p \in Procs :
          /\ \A lf \in SUBSET Users :
                (result'[p].kind = "Report" /\ GenerateAttendanceReport(p, FALSE, lf)) =>
                   LET rows == result'[p].out.rows
                       today == result'[p].date
                       users == {u \in Users : EventsOf(u, today) # {}}
                   IN  \E order \in Orders(users) :
                          /\ Len(rows) = Len(order)
                          /\ \A k \in 1..Len(rows) :
                                \E e \in EventsOf(order[k], today) :
                                   rows[k].name = DisplayNameOf(aliases, e)
          /\ pc[p] = "aliasWrite" => attendance' = attendance]_vars

\* the stored events of a date, and those of a type and of a user among them
StoredOn(d) == {i \in 1..Len(attendance) : attendance[i].Date = d}
StoredOfType(d, type) == {i \in StoredOn(d) : attendance[i].Type = type}
EventOf(u, d, type) ==
    LET found == {i \in StoredOfType(d, type) : attendance[i].UserID = u}
    IN  IF found = {} THEN NoRecord ELSE attendance[CHOOSE i \in found : TRUE]

\* C25: the daily report is made for the Asia/Jakarta date of now; for a
\* date without stored events it is the empty-day message, and otherwise its
\* totals are the number of distinct users, the number of arrival events and
\* the number of departure events stored under that date.
C25_DailyTotals ==
    [][\A p \in Procs : \A lf \in SUBSET Users :
          (result'[p].kind \in {"Report", "ReportEmpty"}
              /\ GenerateAttendanceReport(p, FALSE, lf)) =>
             LET today == JakartaDate(clock)
                 out == result'[p].out
             IN  IF StoredOn(today) = {}
                 THEN result'[p].kind = "ReportEmpty"
                 ELSE /\ result'[p].kind = "Report"
                      /\ out.users =
                            Cardinality({attendance[i].UserID : i \in StoredOn(today)})
                      /\ out.checkIns = Cardinality(StoredOfType(today, CheckIn))
                      /\ out.checkOuts = Cardinality(StoredOfType(today, CheckOut))]_vars

\* C25 witness: a report of a day on which two users arrived and one of them
\* departed.
C25_Witness ==
    \E p \in Procs :
        /\ result[p].kind = "Report"
        /\ result[p].out.users = 2
        /\ result[p].out.checkIns = 2
        /\ result[p].out.checkOuts = 1

\* C26: the daily report has one entry per user with events on the day,
\* numbered in the order written; the entry of a user shows the time of that
\* user's own arrival, the time of that user's own departure and the
\* duration between exactly those two events; a user with an arrival only
\* has an empty departure field and no duration.
C26_EntriesGroupedByUser ==
    [][\A p \in Procs : \A lf \in SUBSET Users :
          (result'[p].kind = "Report" /\ GenerateAttendanceReport(p, FALSE, lf)) =>
             LET rows == result'[p].out.rows
                 today == JakartaDate(clock)
                 users == {attendance[i].UserID : i \in StoredOn(today)}
             IN  \E order \in Orders(users) :
                    /\ Len(rows) = Cardinality(users)
                    /\ \A k \in 1..Len(rows) :
                          LET arrival == EventOf(order[k], today, CheckIn)
                              departure == EventOf(order[k], today, CheckOut)
                          IN  /\ rows[k].index = k
                              /\ rows[k].masuk =
                                    IF arrival = NoRecord THEN NoTime
                                    ELSE FormatTime(arrival.Timestamp)
                              /\ rows[k].pulang =
                                    IF departure = NoRecord THEN NoTime
                                    ELSE FormatTime(departure.Timestamp)
                              /\ rows[k].durasi =
                                    IF arrival = NoRecord \/ departure = NoRecord
                                    THEN NoDuration
                                    ELSE CalculateWorkDuration(arrival.Timestamp,
                                                               departure.Timestamp)]_vars

\* C26 witness: a report with two entries, one of a user who arrived and
\* departed at different minutes and one of a user who only arrived, at
\* another time than the first user did.
C26_Witness ==
    \E p \in Procs :
        LET rows == result[p].out.rows
        IN  /\ result[p].kind = "Report"
            /\ Len(rows) = 2
            /\ \E k, l \in 1..2 :
                  /\ k # l
                  /\ rows[k].pulang # NoTime
                  /\ rows[k].pulang # rows[k].masuk
                  /\ rows[l].masuk # NoTime
                  /\ rows[l].pulang = NoTime
                  /\ rows[l].masuk # rows[k].masuk

\* C27: the daily report is deterministic: the entries a report step writes
\* are the same whatever order the iteration over the day's users takes, so
\* two reports over the same stored events and aliases are the same.
C27_ReportDeterministic ==
    [][\A p \in Procs :
          (result'[p].kind = "Report" /\ GenerateAttendanceReport(p, FALSE, {})) =>
             LET today == JakartaDate(clock)
                 records == GetDailyReport(attendance, aliases, today)
                 users == {attendance[i].UserID : i \in StoredOn(today)}
             IN  \A order \in Orders(users) :
                    result'[p].out.rows =
                       [k \in 1..Len(order) |->
                           ReportEntry(records, aliases, order[k], k, FALSE)]]_vars

\* ------------------------------------------------- lateness and duration
\* the hour of day of an instant on the Asia/Jakarta wall clock, and the
\* seconds since local midnight
JakartaHour(t) == ((t + 7 * 3600) % 86400) \div 3600
JakartaSecondOfDay(t) == (t + 7 * 3600) % 86400

\* C28: the daily report, the history display and the user report flag an
\* arrival late exactly when the Asia/Jakarta hour of its timestamp is 9 or
\* more; MarkAttendance writes an arrival when the user has no event on the
\* date and a departure when the user has an arrival only, writes nothing
\* when both are stored, and its write succeeds, whatever the hour.
C28_LateFromNine ==
    [][\A p \in Procs :
          /\ (result'[p].kind = "Report" /\ GenerateAttendanceReport(p, FALSE, {})) =>
                LET rows == result'[p].out.rows
                    today == JakartaDate(clock)
                    users == {attendance[i].UserID : i \in StoredOn(today)}
                IN  \E order \in Orders(users) :
                       /\ Len(rows) = Len(order)
                       /\ \A k \in 1..Len(rows) :
                             LET arrival == EventOf(order[k], today, CheckIn)
                             IN  /\ arrival # NoRecord =>
                                       rows[k].masuk = FormatTime(arrival.Timestamp)
                                 /\ rows[k].late <=>
                                       /\ arrival # NoRecord
                                       /\ JakartaHour(arrival.Timestamp) >= 9
          /\ \A u \in Users :
                (result'[p].kind = "History" /\ History(p, u, 30, FALSE)) =>
                   \A k \in 1..Len(result'[p].out.days) :
                      LET day == result'[p].out.days[k]
                          arrival == EventOf(u, day.date, CheckIn)
                      IN  day.late <=> /\ arrival # NoRecord
                                       /\ JakartaHour(arrival.Timestamp) >= 9
          /\ \A u \in Users :
                (result'[p].kind = "UserReport" /\ UserReport(p, u)) =>
                   \A k \in 1..Len(result'[p].out.days) :
                      LET day == result'[p].out.days[k]
                          arrival == EventOf(u, day.date, CheckIn)
                      IN  day.status =
                             IF arrival = NoRecord THEN "Absent"
                             ELSE IF JakartaHour(arrival.Timestamp) >= 9 THEN "Late"
                             ELSE "Present"
          /\ (pc[p] = "status" /\ pc'[p] = "insert") =>
                call'[p].type =
                   IF KindsOf(attendance, call[p].user, call[p].date) = {}
                   THEN CheckIn ELSE CheckOut
          /\ (pc[p] = "status" /\ pc'[p] = "done") =>
                KindsOf(attendance, call[p].user, call[p].date) = {CheckIn, CheckOut}
          /\ (pc[p] = "insert" /\ pc'[p] = "done") =>
                /\ result'[p].Success
                /\ Len(attendance') = Len(attendance) + 1
                /\ attendance'[Len(attendance')].Type = call[p].type]_vars

\* C28 witness: a daily report with an arrival at 08:55 that is not flagged
\* and an arrival at 09:00 that is.
C28_Witness ==
    \E p \in Procs :
        LET rows == result[p].out.rows
        IN  /\ result[p].kind = "Report"
            /\ \E k, l \in 1..Len(rows) :
                  /\ rows[k].masuk = <<8, 55>> /\ ~rows[k].late
                  /\ rows[l].masuk = <<9, 0>> /\ rows[l].late

\* C29: for a departure not earlier than the arrival, the duration a daily
\* report or a user report shows has hours H >= 0 and minutes M in 0..59
\* with H * 60 + M the whole minutes elapsed between the two timestamps
\* (8 hours 35 minutes from 08:55:00 to 17:30:00), and shows the hours
\* exactly when H is not 0.
C29_WorkDuration ==
    [][\A p \in Procs : \A u \in Users :
          ((result'[p].kind = "Report" /\ GenerateAttendanceReport(p, FALSE, {}))
              \/ (result'[p].kind = "UserReport" /\ UserReport(p, u))) =>
             LET today == JakartaDate(clock)
                 arrival == EventOf(u, today, CheckIn)
                 departure == EventOf(u, today, CheckOut)
                 shown == IF result'[p].kind = "Report" THEN result'[p].out.rows
                          ELSE result'[p].out.days
             IN  (/\ arrival # NoRecord /\ departure # NoRecord
                  /\ departure.Timestamp >= arrival.Timestamp) =>
                    \E k \in 1..Len(shown) :
                       LET d == shown[k].durasi
                           elapsed == (departure.Timestamp - arrival.Timestamp) \div 60
                       IN  /\ shown[k].masuk \in {FormatTime(arrival.Timestamp),
                                                  FormatTimeSeconds(arrival.Timestamp)}
                           /\ shown[k].pulang \in {FormatTime(departure.Timestamp),
                                                   FormatTimeSeconds(departure.Timestamp)}
                           /\ d.hours >= 0
                           /\ d.minutes \in 0..59
                           /\ d.hours * 60 + d.minutes = elapsed
                           /\ d.withHours <=> d.hours # 0
                           /\ (/\ JakartaSecondOfDay(arrival.Timestamp) = 8 * 3600 + 55 * 60
                               /\ JakartaSecondOfDay(departure.Timestamp) = 17 * 3600 + 30 * 60)
                                 => d.hours = 8 /\ d.minutes = 35]_vars

\* C29 witness: a daily report shows 8 hours 35 minutes for an arrival at
\* 08:55 and a departure at 17:30.
C29_Witness ==
    \E p \in Procs :
        LET rows == result[p].out.rows
        IN  /\ result[p].kind = "Report"
            /\ \E k \in 1..Len(rows) :
                  /\ rows[k].masuk = <<8, 55>>
                  /\ rows[k].pulang = <<17, 30>>
                  /\ rows[k].durasi = [hours |-> 8, minutes |-> 35, withHours |-> TRUE]

\* ------------------------------------------------------------- startup
\* the attendance service has been constructed
Constructed == \E p \in Procs : pc[p] \notin {"boot", "exit"}
\* the secrets that decode as base32, and those that decode to 16 bytes or more
DecodableSecrets == {sec \in EnvSecrets : ~Base32Decode(ToUpper(sec)).err}
SixteenByteSecrets ==
    {sec \in DecodableSecrets : Len(Base32Decode(ToUpper(sec)).bytes) >= 16}

C31_StatusMatchesStore ==
    [][\A p \in Procs : \A u \in Users :
          (result'[p].kind = "Status" /\ Status(p, u, FALSE)) =>
             LET st == result'[p].out.status
                 shown == result'[p].out.rows[1]
                 today == JakartaDate(clock)
                 arrival == EventOf(u, today, CheckIn)
                 departure == EventOf(u, today, CheckOut)
             IN  /\ st.HasCheckedIn <=> arrival # NoRecord
                 /\ st.HasCheckedOut <=> departure # NoRecord
                 /\ st.CheckInRecord = arrival
                 /\ st.CheckOutRecord = departure
                 /\ (st.HasCheckedIn /\ st.HasCheckedOut) =>
                       /\ st.CheckInRecord.Type = CheckIn
                       /\ st.CheckOutRecord.Type = CheckOut
                       /\ st.CheckInRecord.ID # st.CheckOutRecord.ID
                       /\ shown.masuk = FormatTime(arrival.Timestamp)
                       /\ shown.pulang = FormatTime(departure.Timestamp)]_vars

\* C31 witness: /status of a user who arrived at 08:55 and departed at 17:30.
C31_Witness ==
    \E p \in Procs :
        /\ result[p].kind = "Status"
        /\ result[p].out.status.HasCheckedIn
        /\ result[p].out.status.HasCheckedOut
        /\ result[p].out.rows[1].masuk = <<8, 55>>
        /\ result[p].out.rows[1].pulang = <<17, 30>>

\* ------------------------------------------------------------- replay
\* the time step of the code that is sent again
ReplayStep == FirstInstant \div 30

\* C32: no consumed code is remembered: a call with the code of one step is
\* accepted exactly when the current step is within one step of the code's,
\* whatever was accepted or stored before, and an accepted call stores the
\* user's arrival, then the user's departure, for any user that sends it.
C32_CodeAcceptedAgain ==
    [][\A p \in Procs :
          /\ \A u \in Users :
                (pc[p] \in {"idle", "done"} /\ Begin(p, u, ReplayCode)) =>
                   /\ pc'[p] = "clock" <=>
                         (clock \div 30) - ReplayStep \in {-1, 0, 1}
                   /\ pc'[p] # "clock" => result'[p].kind = "InvalidOrExpired"
          /\ (pc[p] = "status" /\ pc'[p] = "insert") =>
                call'[p].type =
                   IF KindsOf(attendance, call[p].user, call[p].date) = {}
                   THEN CheckIn ELSE CheckOut
          /\ (pc[p] = "insert" /\ pc'[p] = "done") =>
                /\ result'[p].Success
                /\ attendance' = Append(attendance, result'[p].Record)
                /\ result'[p].Record.UserID = call[p].user
                /\ result'[p].Record.Type = call[p].type]_vars

\* C32 witness: the one code has recorded the arrival and the departure of
\* one user and the arrival of another, the last of them in the step after
\* the code's, and is refused two steps after its own.
C32_Witness ==
    /\ Len(attendance) = 3
    /\ attendance[1].UserID = attendance[2].UserID
    /\ attendance[1].Type = CheckIn
    /\ attendance[2].Type = CheckOut
    /\ attendance[3].UserID # attendance[1].UserID
    /\ attendance[3].Timestamp \div 30 = ReplayStep + 1
    /\ clock \div 30 = ReplayStep + 2
    /\ \E p \in Procs : result[p].kind = "InvalidOrExpired"

\* ------------------------------------------------- arrival and departure
\* C33: in every reachable state, under any interleaving of MarkAttendance
\* calls, a stored departure of a user and a date has a stored arrival of
\* the same user and date, and its timestamp is not earlier than the
\* arrival's.
C33_DepartureFollowsArrival ==
    \A i \in 1..Len(attendance) :
        attendance[i].Type = CheckOut =>
            \E j \in 1..Len(attendance) :
                /\ attendance[j].Type = CheckIn
                /\ attendance[j].UserID = attendance[i].UserID
                /\ attendance[j].Date = attendance[i].Date
                /\ attendance[j].Timestamp <= attendance[i].Timestamp

\* ------------------------------------------------------------- frame
\* the user a step of caller p acts for
ActingUser(p) ==
    IF pc[p] \in {"idle", "done"}
    THEN IF pc'[p] = "clock" THEN call'[p].user ELSE result'[p].user
    ELSE call[p].user

\* C34: a step of a MarkAttendance call for one user leaves every other
\* user's stored events, status of every date and alias as they were; what a
\* call decides and whether its insert succeeds is determined by the
\* caller's own user's stored events of the date.
C34_OtherUsersUntouched ==
    [][\A p \in Procs :
          /\ pc'[p] # pc[p] =>
                \A b \in Users \ {ActingUser(p)} :
                   /\ GetUserAlias(aliases', b) = GetUserAlias(aliases, b)
                   /\ \A d \in DateKeys :
                         /\ RowsOf(attendance', b, d) = RowsOf(attendance, b, d)
                         /\ GetUserAttendanceStatus(attendance', b, d) =
                               GetUserAttendanceStatus(attendance, b, d)
          /\ (pc[p] = "status" /\ pc'[p] = "insert") =>
                call'[p].type =
                   IF CheckIn \notin KindsOf(attendance, call[p].user, call[p].date)
                   THEN CheckIn ELSE CheckOut
          /\ (pc[p] = "status" /\ pc'[p] = "done") =>
                KindsOf(attendance, call[p].user, call[p].date) = {CheckIn, CheckOut}
          /\ (pc[p] = "insert" /\ pc'[p] = "done") =>
                /\ result'[p].Success <=>
                      call[p].type \notin KindsOf(attendance, call[p].user, call[p].date)
                /\ result'[p].Success =>
                      /\ result'[p].Record.UserID = call[p].user
                      /\ result'[p].Record.Type = call[p].type
                      /\ result'[p].Record.Date = call[p].date
                      /\ result'[p].Record.Timestamp = call[p].now]_vars

\* C34 witness: a caller has recorded the arrival of one user while another
\* caller, for another user who has an arrival stored, is between its
\* status query and its insert, and is about to record that user's departure.
C34_Witness ==
    \E p, q \in Procs :
        /\ p # q
        /\ result[p].Success
        /\ result[p].Record.Type = CheckIn
        /\ result[p].Record = attendance[Len(attendance)]
        /\ pc[q] = "insert"
        /\ call[q].user # result[p].user
        /\ call[q].type = CheckOut
        /\ call[q].date = result[p].date

\* C35: a call of MarkAttendance whose load of the Daily Status fails, at the
\* query or while its rows are read, ends there with an error and no result,
\* issues no insert and leaves the store as it was; a call whose insert fails
\* stores no event and reports no success
C35_FailedLoadOrInsertStoresNothing ==
    [][\A p \in Procs :
         /\ (pc[p] = "status" /\ (LoadStatusFails(p) \/ LoadStatusTruncated(p))) =>
                /\ pc'[p] = "done"
                /\ result'[p].err
                /\ ~result'[p].Success
                /\ result'[p].Record = NoRecord
                /\ attendance' = attendance
         /\ (pc[p] = "insert" /\ pc'[p] = "done" /\ result'[p].err) =>
                /\ attendance' = attendance
                /\ ~result'[p].Success
                /\ result'[p].Record = NoRecord]_vars

\* the update the loop hands to handleUpdate in this step, if it does
Handling == loop.at = "range" /\ updates # <<>> /\ updates' = Tail(updates)
IsCommand(text) == text # <<>> /\ text[1] = "/"
IsFullReportCommand(text) == IsCommand(text) /\ Fields(text)[1] = FullReportText
\* the handler that has taken up the update handled in this step
TakenUpBy ==
    IF Len(handled') > Len(handled) THEN handled'[Len(handled')].handler ELSE loop'.at

\* C36: /fullreport puts the sending user, and nobody else, into the awaiting
\* state; a message of an awaiting user that is neither a command nor a code
\* is taken as report input and ends that user's awaiting state, whether the
\* input is accepted or refused; any other command, a code, and a message of
\* a user who is not awaiting leave every user's awaiting state as it was,
\* and so does every step that hands no update to a handler
C36_FullReportSessionOneShot ==
    [][IF Handling /\ Head(updates).Message
          THEN LET u == Head(updates).From
                   text == Head(updates).Text
               IN  IF IsFullReportCommand(text)
                      THEN sessions' = sessions \cup {u}
                   ELSE IF IsCommand(text) \/ ValidateOTP(text)
                      THEN /\ sessions' = sessions
                           /\ TakenUpBy \in {"handleCommand", "handleReport", "handleOTP"}
                   ELSE IF u \in sessions
                      THEN /\ sessions' = sessions \ {u}
                           /\ TakenUpBy \in {"handleFullReportInput",
                                             "generateAndSendCSVReport"}
                   ELSE /\ sessions' = sessions
                        /\ TakenUpBy = "handleTextMessage"
       ELSE sessions' = sessions]_vars

\* two users have sent /fullreport; the input of one of them was refused,
\* which ended the awaiting state of that user and left the other awaiting
C36_Witness ==
    /\ Len(handled) = 3
    /\ handled[1].handler = "handleFullReport"
    /\ handled[2].handler = "handleFullReport"
    /\ handled[3].handler = "handleFullReportInput"
    /\ Cardinality(sessions) = 1

\* a text of the form password, start date, end date with the configured
\* password, two dates of the calendar and a start that is not after the end
IsCalendarDate(w) == IsDateShape(w) /\ ~ParseDate(w).err
AcceptedInput(text) ==
    LET w == Fields(text)
    IN  /\ Len(w) = 3
        /\ w[1] = AdminPassword
        /\ IsCalendarDate(w[2])
        /\ IsCalendarDate(w[3])
        /\ DayNumber(ParseDate(w[2])) <= DayNumber(ParseDate(w[3]))
\* the step is a read of the range export
ReadsRange == calls' = calls + 1 /\ result'[Poller].kind \in {"Range", "RangeFailed"}
\* the step starts no call of the service and changes nothing the service keeps
NothingRead ==
    /\ loop'.at \in {"getUpdates", "range"}
    /\ UNCHANGED <<attendance, aliases, pc, call, result, calls>>

\* C37: the range export is read only by generateAndSendCSVReport, for the
\* dates of the message it works on; a message that is neither a command nor
\* a code gets there only if its sender is awaiting and its text is an
\* accepted input, and in every other case its handler returns with nothing
\* read from the store
C37_RangeExportOnlyForAcceptedInput ==
    [][/\ ReadsRange =>
             /\ loop.at = "generateAndSendCSVReport"
             /\ AcceptedInput(loop.update.Text)
             /\ loop.start = DayNumber(ParseDate(Fields(loop.update.Text)[2]))
             /\ loop.end = DayNumber(ParseDate(Fields(loop.update.Text)[3]))
       /\ (Handling /\ Head(updates).Message) =>
             LET u == Head(updates).From
                 text == Head(updates).Text
             IN  (~IsCommand(text) /\ ~ValidateOTP(text)) =>
                    /\ loop'.at = "generateAndSendCSVReport" =>
                          (u \in sessions /\ AcceptedInput(text) /\ loop'.update = Head(updates))
                    /\ ~(u \in sessions /\ AcceptedInput(text)) => NothingRead]_vars

\* the export has been read for an accepted input and holds an event
C37_Witness ==
    /\ loop.at = "generateAndSendCSVReport"
    /\ result[Poller].kind = "Range"
    /\ result[Poller].out.rows # <<>>
    /\ AcceptedInput(loop.update.Text)

\* the ids of a sequence of updates or of handled updates grow
Ascending(seq) == \A i, j \in 1..Len(seq) : i < j => seq[i].UpdateID < seq[j].UpdateID

\* C38: the polling loop hands the updates to handleUpdate one at a time, in
\* the order of delivery and each at most once: lastUpdateID is set to the
\* id of the update as it is handed over and changes in no other step, a
\* poll delivers the updates that follow lastUpdateID, an error of a handler
\* leaves the loop at the rest of the delivered updates, and a failed poll
\* leaves lastUpdateID as it was and is followed by another poll
C38_UpdatesHandledOnceInOrder ==
    [][/\ IF Handling
             THEN /\ lastUpdateID' = Head(updates).UpdateID
                  /\ lastUpdateID < Head(updates).UpdateID
                  /\ \A i \in 1..Len(handled) : handled[i].UpdateID < Head(updates).UpdateID
                  /\ pc[Poller] \in {"idle", "done"}
          ELSE lastUpdateID' = lastUpdateID
       /\ Ascending(handled')
       /\ (loop.at = "getUpdates" /\ updates' # updates) =>
             /\ updates = <<>>
             /\ lastUpdateID + Len(updates') <= Len(sent)
             /\ \A i \in 1..Len(updates') :
                   updates'[i] = sent[lastUpdateID + i]
       /\ (Len(handled') > Len(handled) /\ handled'[Len(handled')].err) =>
             /\ loop'.at = IF updates' = <<>> THEN "getUpdates" ELSE "range"
             /\ \A i \in 1..Len(updates') :
                   updates'[i].UpdateID > handled'[Len(handled')].UpdateID
       /\ (loop.at = "getUpdates" /\ loop'.at = "sleep") => UNCHANGED updates
       /\ (loop.at = "sleep" /\ loop' # loop) =>
             (loop'.at = "getUpdates" /\ UNCHANGED updates)]_vars

\* the handler of the first update returned an error, a later update has
\* been handled since, and the poll after it has failed
C38_Witness ==
    /\ loop.at = "sleep"
    /\ Len(handled) >= 2
    /\ handled[1].err
    /\ lastUpdateID = handled[Len(handled)].UpdateID

====
